---- MODULE Spec2Model ----
(***************************************************************************)
(* grs: tokenizer, checker and the convergent fix loop.                    *)
(*                                                                         *)
(* Text is a sequence of characters; every character carries its UTF-8     *)
(* width, and every offset and range below is a BYTE offset, as in the     *)
(* Rust code.  Characters of the model:                                    *)
(*   "sp"  U+0020 space            1 byte  whitespace                      *)
(*   "ap"  U+0027 apostrophe       1 byte  punctuation                     *)
(*   "o"   U+006F latin o          1 byte  alphabetic, latin look-alike    *)
(*   "al"  U+03B1 greek alpha      2 bytes alphabetic, greek               *)
(*   "om"  U+03BF greek omicron    2 bytes alphabetic, greek               *)
(*   "mu"  U+03BC greek mu         2 bytes alphabetic, greek               *)
(*   "mi"  U+00B5 micro sign       2 bytes alphabetic, not greek           *)
(*   "dot" U+002E full stop        1 byte  punctuation                     *)
(*   "aa"  U+03AC alpha with tonos 2 bytes alphabetic, greek               *)
(*   "id"  U+03CA iota, dialytika  2 bytes alphabetic, greek               *)
(*   "io"  U+03B9 greek iota       2 bytes alphabetic, greek               *)
(*   "nu"  U+03BD greek nu         2 bytes alphabetic, greek               *)
(*   "nl"  U+000A line feed        1 byte  whitespace                      *)
(*   "d1"  U+0031 digit one        1 byte  neither alphabetic nor space    *)
(*   "gap" a run of 2^32 spaces    2^32 bytes, whitespace: the way a text  *)
(*         longer than u32::MAX bytes is written down                      *)
(*                                                                         *)
(* TLC computes with 32-bit signed integers, which cannot hold 2^32.  A    *)
(* byte count n = g * 2^32 + b is therefore written g * U32_RANGE + b; the *)
(* writing keeps sums and comparisons as long as b stays below U32_RANGE,  *)
(* which holds for every text of the model (b is at most a few hundred).   *)
(***************************************************************************)
EXTENDS Integers, Sequences, FiniteSets, TLC

\* ------------------------------------------------------------------ bounds
\* Longest text enumerated exhaustively as an input.
MaxLen == 4
\* Longest list of (rule, fix) pairs handed to one isolated apply pass.
MaxFixes == 3

\* -------------------------------------------------------------- characters
InputChars == {"sp", "ap", "o", "al", "mi"}

is_whitespace(c) == c \in {"sp", "nl", "gap"}

is_alphabetic(c) == c \in {"o", "al", "om", "mu", "mi", "aa", "id", "io", "nu"}

is_greek_char(c) == c \in {"al", "om", "mu", "aa", "id", "io", "nu"}

\* 2^32, the number of values of a u32, in the writing described above.
U32_RANGE == 1048576

len_utf8(c) ==
    IF c = "gap" THEN U32_RANGE
    ELSE IF c \in {"sp", "ap", "o", "dot", "nl", "d1"} THEN 1
    ELSE 2

\* str::len(): the length of a string in bytes.
RECURSIVE len(_)
len(s) == IF s = <<>> THEN 0 ELSE len_utf8(Head(s)) + len(Tail(s))

\* Number of characters of s that start before byte offset b.
RECURSIVE chars_before(_, _)
chars_before(s, b) ==
    IF s = <<>> \/ b <= 0 THEN 0
    ELSE 1 + chars_before(Tail(s), b - len_utf8(Head(s)))

\* b is a character boundary of s (str::is_char_boundary).
is_char_boundary(s, b) ==
    /\ b >= 0
    /\ b <= len(s)
    /\ len(SubSeq(s, 1, chars_before(s, b))) = b

\* &s[a..b]: the byte slice of s (the code panics unless a <= b are boundaries).
slice(s, a, b) == SubSeq(s, chars_before(s, a) + 1, chars_before(s, b))

\* &s[a..b] panics unless a <= b and both are character boundaries of s.
can_slice(s, a, b) == a <= b /\ is_char_boundary(s, a) /\ is_char_boundary(s, b)

\* ------------------------------------------------------------------ panics
\* The outcome of a computation that panicked.
Panic == [panic |-> TRUE]

\* ------------------------------------------------------------------- range
\* TextRange::new asserts start <= end.
TextRange(start, end) == IF start <= end THEN [start |-> start, end |-> end] ELSE Panic

\* --------------------------------------------------------------- tokenizer
\* u32::MAX, the largest offset a Token stores.
U32_MAX == U32_RANGE - 1

\* Token::new: u32::try_from(offset).unwrap() panics on a larger offset.
Token(text, index, offset, kind) ==
    IF offset > U32_MAX THEN Panic
    ELSE [text |-> text, index |-> index, offset |-> offset, kind |-> kind]

\* Token::range()
range(token) == TextRange(token.offset, token.offset + len(token.text))

\* The run that ends after one character when it is a run of whitespace.
RECURSIVE run_len_one(_, _)
run_len_one(s, is_ws) ==
    IF s = <<>> \/ is_whitespace(Head(s)) # is_ws THEN 0
    ELSE IF is_ws THEN 1
    ELSE 1 + run_len_one(Tail(s), is_ws)

\* Length in characters of the leading run of s whose whitespace-ness is is_ws.
RECURSIVE run_len(_, _)
run_len(s, is_ws) ==
    IF s = <<>> \/ is_whitespace(Head(s)) # is_ws THEN 0
    ELSE 1 + run_len(Tail(s), is_ws)

\* split_whitespace: alternating maximal whitespace / non-whitespace chunks.
RECURSIVE split_whitespace(_)
split_whitespace(text) ==
    IF text = <<>> THEN <<>>
    ELSE LET is_ws == is_whitespace(Head(text))
             split_at == run_len(text, is_ws)
         IN  <<[kind |-> IF is_ws THEN "Whitespace" ELSE "Word",
                chunk |-> SubSeq(text, 1, split_at)]>>
             \o split_whitespace(SubSeq(text, split_at + 1, Len(text)))

\* Number of leading non-alphabetic characters of s.
RECURSIVE lead_non_alpha(_)
lead_non_alpha(s) ==
    IF s = <<>> \/ is_alphabetic(Head(s)) THEN 0
    ELSE 1 + lead_non_alpha(Tail(s))

\* Number of trailing non-alphabetic characters of s.
RECURSIVE trail_non_alpha(_)
trail_non_alpha(s) ==
    IF s = <<>> \/ is_alphabetic(s[Len(s)]) THEN 0
    ELSE 1 + trail_non_alpha(SubSeq(s, 1, Len(s) - 1))

\* grac::split_punctuation: (leading punctuation, word, trailing punctuation).
split_punctuation(s) ==
    LET l == lead_non_alpha(s)
        r == IF l = Len(s) THEN 0 ELSE trail_non_alpha(s)
    IN  [lpunct |-> SubSeq(s, 1, l),
         word   |-> SubSeq(s, l + 1, Len(s) - r),
         rpunct |-> SubSeq(s, Len(s) - r + 1, Len(s))]

\* grac::is_greek_word: every alphabetic character is a Greek letter.
is_greek_word(s) == \A i \in 1..Len(s) : is_alphabetic(s[i]) => is_greek_char(s[i])

\* The tokens of a chunk when the trailing punctuation is placed right after
\* the leading punctuation.
word_tokens_rpunct_at_word(text, slice0, start, index) ==
    LET sp == split_punctuation(slice0)
        l == len(sp.lpunct)
        w == len(sp.word)
        r == len(sp.rpunct)
        t1 == IF l > 0
              THEN <<Token(slice(text, start, start + l), index, start, "Punctuation")>>
              ELSE <<>>
        start_w == start + l
        chunk_w == slice(text, start_w, start_w + w)
        t2 == IF w > 0
              THEN <<Token(chunk_w, index + Len(t1), start_w,
                           IF is_greek_word(chunk_w) THEN "GreekWord" ELSE "Word")>>
              ELSE <<>>
        start_r == start + l
        t3 == IF r > 0
              THEN <<Token(slice(text, start_r, start_r + r),
                           index + Len(t1) + Len(t2), start_r, "Punctuation")>>
              ELSE <<>>
    IN  t1 \o t2 \o t3

\* The tokens of a chunk when the word token runs to the end of the chunk and
\* no token is pushed for the trailing punctuation.
word_tokens_word_keeps_rpunct(text, slice0, start, index) ==
    LET sp == split_punctuation(slice0)
        l == len(sp.lpunct)
        w == len(sp.word)
        r == len(sp.rpunct)
        t1 == IF l > 0
              THEN <<Token(slice(text, start, start + l), index, start, "Punctuation")>>
              ELSE <<>>
        start_w == start + l
        chunk_w == slice(text, start_w, start_w + w + r)
        t2 == IF w > 0
              THEN <<Token(chunk_w, index + Len(t1), start_w,
                           IF is_greek_word(chunk_w) THEN "GreekWord" ELSE "Word")>>
              ELSE <<>>
    IN  t1 \o t2

\* The tokens pushed for one non-whitespace chunk that starts at byte `start`.
word_tokens(text, slice0, start, index) ==
    LET sp == split_punctuation(slice0)
        l == len(sp.lpunct)
        w == len(sp.word)
        r == len(sp.rpunct)
        t1 == IF l > 0
              THEN <<Token(slice(text, start, start + l), index, start, "Punctuation")>>
              ELSE <<>>
        start_w == start + l
        chunk_w == slice(text, start_w, start_w + w)
        t2 == IF w > 0
              THEN <<Token(chunk_w, index + Len(t1), start_w,
                           IF is_greek_word(chunk_w) THEN "GreekWord" ELSE "Word")>>
              ELSE <<>>
        start_r == start + l + w
        t3 == IF r > 0
              THEN <<Token(slice(text, start_r, start_r + r),
                           index + Len(t1) + Len(t2), start_r, "Punctuation")>>
              ELSE <<>>
    IN  t1 \o t2 \o t3

\* The loop of tokenize with the index advanced once per chunk, whatever the
\* number of tokens pushed for it.
RECURSIVE tokenize_loop_index_per_chunk(_, _, _, _, _)
tokenize_loop_index_per_chunk(text, chunks, end, index, tokens) ==
    IF chunks = <<>> THEN tokens
    ELSE LET c == Head(chunks)
             start == end
             new == IF c.kind = "Whitespace"
                    THEN <<Token(c.chunk, index, start, "Whitespace")>>
                    ELSE word_tokens(text, c.chunk, start, index)
         IN  tokenize_loop_index_per_chunk(text, Tail(chunks), start + len(c.chunk),
                                           index + 1, tokens \o new)

\* The loop of tokenize over the chunks, carrying (end, index, tokens).
RECURSIVE tokenize_loop(_, _, _, _, _)
tokenize_loop(text, chunks, end, index, tokens) ==
    IF chunks = <<>> THEN tokens
    ELSE LET c == Head(chunks)
             start == end
             new == IF c.kind = "Whitespace"
                    THEN <<Token(c.chunk, index, start, "Whitespace")>>
                    ELSE word_tokens(text, c.chunk, start, index)
         IN  tokenize_loop(text, Tail(chunks), start + len(c.chunk),
                           index + Len(new), tokens \o new)

\* Doc { src, tokens }, the value tokenize returns; a panic of Token::new
\* unwinds through tokenize.
Doc(src, tokens) ==
    IF \E i \in 1..Len(tokens) : tokens[i] = Panic THEN Panic
    ELSE [src |-> src, tokens |-> tokens]

\* tokenize: build a Doc from a source text.
tokenize(text) == Doc(text, tokenize_loop(text, split_whitespace(text), 0, 0, <<>>))

\* None of Option<..>.
None == [none |-> TRUE]

\* Doc::get(idx) with a 0-based index.
get(doc, idx) == IF idx >= 0 /\ idx < Len(doc.tokens) THEN doc.tokens[idx + 1] ELSE None

\* Doc::next_token_not_whitespace without the loop: the token at idx + 1.
next_adjacent(doc, idx) == get(doc, idx + 1)

\* Doc::next_token_not_whitespace: the loop from a 0-based index idx.
RECURSIVE next_not_ws_from(_, _)
next_not_ws_from(doc, idx) ==
    LET ntoken == get(doc, idx + 1)
    IN  IF ntoken = None THEN None
        ELSE IF ntoken.kind # "Whitespace" THEN ntoken
        ELSE next_not_ws_from(doc, idx + 1)

next_token_not_whitespace(doc, token) == next_not_ws_from(doc, token.index)

\* Doc::next_token_greek_word: the loop from a 0-based index idx.
RECURSIVE next_greek_from(_, _)
next_greek_from(doc, idx) ==
    LET ntoken == get(doc, idx + 1)
    IN  IF ntoken = None THEN None
        ELSE IF ntoken.kind = "GreekWord" THEN ntoken
        ELSE next_greek_from(doc, idx + 1)

next_token_greek_word(doc, token) == next_greek_from(doc, token.index)

\* Doc::prev_token_not_whitespace: the `while idx > 0` loop.
RECURSIVE prev_not_ws_from(_, _)
prev_not_ws_from(doc, idx) ==
    IF idx > 0
    THEN LET ntoken == get(doc, idx - 1)
         IN  IF ntoken = None THEN None
             ELSE IF ntoken.kind # "Whitespace" THEN ntoken
             ELSE prev_not_ws_from(doc, idx - 1)
    ELSE None

prev_token_not_whitespace(doc, token) == prev_not_ws_from(doc, token.index)

\* grac::constants::APOSTROPHES restricted to the characters of the model.
APOSTROPHES == {"ap"}

\* Doc::is_abbreviation_or_ends_with_dot (of '.' and the ellipsis mark the
\* model has '.').
is_abbreviation_or_ends_with_dot(doc, token) ==
    LET ntoken == next_token_not_whitespace(doc, token)
    IN  /\ ntoken # None
        /\ ntoken.kind = "Punctuation"
        /\ ntoken.text # <<>>
        /\ \/ Head(ntoken.text) \in {"dot"}
           \/ Head(ntoken.text) \in APOSTROPHES

\* ------------------------------------------------------------ diagnostics
Fix(replacement, rng) == [replacement |-> replacement, range |-> rng]

Diagnostic(kind, rng, fix) == [kind |-> kind, range |-> rng, fix |-> fix]

\* ---------------------------------------------------------------- registry
\* The rules: the variants of the enum, and ForbiddenDoubleAccent, which
\* check_token_with_context and the evaluator of the rule name.
Rule == {"MissingDoubleAccents", "MissingAccentCapital", "DuplicatedWord",
         "AddFinalN", "RemoveFinalN", "OutdatedSpelling", "MonosyllableAccented",
         "MultisyllableNotAccented", "MixedScripts", "AmbiguousChar",
         "ForbiddenAccent", "ForbiddenDoubleAccent", "ForbiddenChar", "Punctuation"}

\* Rule::has_fix: matches! over the rules listed; false for every other rule.
has_fix(rule) ==
    rule \in {"MissingDoubleAccents", "MissingAccentCapital", "AddFinalN",
              "RemoveFinalN", "OutdatedSpelling", "MonosyllableAccented",
              "MixedScripts", "AmbiguousChar", "Punctuation"}

requires_tokenizing(rule) ==
    rule \notin {"OutdatedSpelling", "AmbiguousChar", "ForbiddenChar"}

\* ------------------------------------------------------------------- rules
\* Byte offset of the first occurrence of character c in s, or -1.
RECURSIVE find_char(_, _, _)
find_char(s, c, at) ==
    IF s = <<>> THEN -1
    ELSE IF Head(s) = c THEN at
    ELSE find_char(Tail(s), c, at + len_utf8(Head(s)))

\* ambiguous_char: the first micro sign becomes a Greek mu.
ambiguous_char(text) ==
    LET start == find_char(text, "mi", 0)
    IN  IF start < 0 THEN <<>>
        ELSE LET rng == TextRange(start, start + len_utf8("mi"))
             IN  <<Diagnostic("AmbiguousChar", rng, Fix(<<"mu">>, rng))>>

\* OUTDATED_SPELLINGS_MULTIPLE restricted to the characters of the model.
OUTDATED_SPELLINGS_MULTIPLE == {<<<<"aa", "id">>, <<"aa", "io">>>>}

\* AhoCorasick::new over the outdated spellings: the automaton, as the set of
\* its patterns.
AhoCorasick_new == [patterns |-> {p[1] : p \in OUTDATED_SPELLINGS_MULTIPLE}]

\* OnceLock::get_or_init with the initialiser that runs on every call.
init_always(cell) == [value |-> AhoCorasick_new, inits |-> 1]

\* OnceLock::get_or_init: the initialiser runs when the cell is empty; the
\* value of the cell comes back.
get_or_init(cell) ==
    IF cell = None THEN [value |-> AhoCorasick_new, inits |-> 1]
    ELSE [value |-> cell, inits |-> 0]

\* Some pattern of the automaton occurs in s at character position i.
match_at(ac, s, i) ==
    {p \in ac.patterns : i + Len(p) - 1 <= Len(s) /\ SubSeq(s, i, i + Len(p) - 1) = p}

\* AhoCorasick::find_iter: the non-overlapping matches from character
\* position i on, left to right, as byte ranges.
RECURSIVE find_iter(_, _, _)
find_iter(ac, s, i) ==
    IF i > Len(s) THEN <<>>
    ELSE IF match_at(ac, s, i) = {} THEN find_iter(ac, s, i + 1)
    ELSE LET p == CHOOSE q \in match_at(ac, s, i) : TRUE
             start == len(SubSeq(s, 1, i - 1))
         IN  <<[start |-> start, end |-> start + len(p)]>>
             \o find_iter(ac, s, i + Len(p))

\* The loop of outdated_spelling over the matches of the automaton it got.
RECURSIVE outdated_spelling_matches(_, _)
outdated_spelling_matches(text, mats) ==
    IF mats = <<>> THEN <<>>
    ELSE LET mat == Head(mats)
             target == slice(text, mat.start, mat.end)
             found == {p \in OUTDATED_SPELLINGS_MULTIPLE : p[1] = target}
             rng == TextRange(mat.start, mat.end)
         IN  (IF found = {} THEN <<>>
              ELSE <<Diagnostic("OutdatedSpelling", rng,
                                Fix((CHOOSE p \in found : TRUE)[2], rng))>>)
             \o outdated_spelling_matches(text, Tail(mats))

\* outdated_spelling with the automaton `ac` that AC.get_or_init returned.
outdated_spelling(ac, text) == outdated_spelling_matches(text, find_iter(ac, text, 1))

\* LATIN_TO_GREEK restricted to the characters of the model.
is_latin_lookalike(c) == c = "o"

latin_to_greek(c) == IF c = "o" THEN "om" ELSE c

\* mixed_scripts_opt: a word with both Greek and look-alike Latin letters and
\* no non-alphabetic character.
mixed_scripts_opt(token) ==
    /\ \A i \in 1..Len(token.text) :
          \/ is_greek_char(token.text[i])
          \/ is_latin_lookalike(token.text[i])
          \/ is_alphabetic(token.text[i])
    /\ \E i \in 1..Len(token.text) : is_greek_char(token.text[i])
    /\ \E i \in 1..Len(token.text) :
          ~is_greek_char(token.text[i]) /\ is_latin_lookalike(token.text[i])

\* Token.whitespace, the field the rule reads: the whitespace character right
\* after the text of the token, empty when the text ends or another token
\* follows.  In a Doc whose whitespace is a token of its own it is the first
\* character of the Whitespace token at the next index.
whitespace(token, doc) ==
    LET ntoken == get(doc, token.index + 1)
    IN  IF ntoken = None \/ ntoken.kind # "Whitespace" THEN <<>>
        ELSE IF Head(ntoken.text) = "gap" THEN <<"sp">>
        ELSE <<Head(ntoken.text)>>

\* Token.range, the field the rule reads: the bytes of the text and of the
\* whitespace of the token.
Token_range(token, doc) ==
    TextRange(token.offset, token.offset + len(token.text) + len(whitespace(token, doc)))

\* mixed_scripts: replace the Latin look-alikes of the token; the range and
\* the replacement take the whitespace of the token along.
mixed_scripts(token, doc) ==
    IF mixed_scripts_opt(token)
    THEN <<Diagnostic("MixedScripts", Token_range(token, doc),
                      Fix([i \in 1..Len(token.text) |-> latin_to_greek(token.text[i])]
                              \o whitespace(token, doc),
                          Token_range(token, doc)))>>
    ELSE <<>>

\* ------------------------------------------------ letters and syllables
\* The functions of the grac crate that the rules call, on the characters of
\* the model.
is_vowel(c) == c \in {"al", "om", "aa", "id", "io"}

is_uppercase(c) == FALSE

is_lowercase(c) == is_alphabetic(c)

\* has_diacritic(c, ACUTE) for one letter.
has_acute(c) == c = "aa"

\* has_diacritic(s, ACUTE).  The model has no letter with a grave or a
\* circumflex, so has_diacritics(s, [ACUTE, GRAVE, CIRCUMFLEX]) is the same.
has_diacritic(s) == \E i \in 1..Len(s) : has_acute(s[i])

\* has_any_diacritic: an acute or a dialytika.
has_any_diacritic(s) == \E i \in 1..Len(s) : s[i] \in {"aa", "id"}

\* The merge modes of syllabify_with_merge; syllabify merges by table.
Merge == {"Every", "Never", "Indeterminate"}

\* The words of the synizesis table that the model's characters spell.
SYNIZESIS_WORDS == {<<"mu", "io", "al">>, <<"mu", "io", "al", "nu">>}

\* An iota merges with the vowel after it (synizesis) in word s.
merges(s, merge) ==
    merge = "Every" \/ (merge = "Indeterminate" /\ s \in SYNIZESIS_WORDS)

\* Adjacent vowels p, c of word s lie in one syllable: alpha or omicron
\* (alpha also with its acute) followed by a plain iota, or a plain iota
\* merged with the vowel after it.
same_syllable(s, p, c, merge) ==
    \/ p \in {"al", "om", "aa"} /\ c = "io"
    \/ merges(s, merge) /\ p = "io" /\ is_vowel(c)

\* The positions of s where a syllable starts: the first letter, and for
\* every later vowel that opens a syllable the vowel, or the consonant right
\* before it.
syllable_starts(s, merge) ==
    LET opening == {i \in 1..Len(s) :
                       /\ is_vowel(s[i])
                       /\ \/ i = 1
                          \/ ~is_vowel(s[i - 1])
                          \/ ~same_syllable(s, s[i - 1], s[i], merge)}
        later == {i \in opening : \E k \in opening : k < i}
    IN  {1} \cup {IF is_vowel(s[i - 1]) THEN i ELSE i - 1 : i \in later}

\* The k-th position of a set of positions, in ascending order.
nth_start(starts, k) ==
    CHOOSE p \in starts : Cardinality({q \in starts : q < p}) = k - 1

\* The last position of the k-th syllable of s.
syllable_end(s, starts, k) ==
    IF k = Cardinality(starts) THEN Len(s) ELSE nth_start(starts, k + 1) - 1

\* syllabify_with_merge: the syllables of s, first to last.
syllabify_with_merge(s, merge) ==
    IF s = <<>> THEN <<>>
    ELSE [k \in 1..Cardinality(syllable_starts(s, merge)) |->
             SubSeq(s, nth_start(syllable_starts(s, merge), k),
                    syllable_end(s, syllable_starts(s, merge), k))]

\* syllabify: synizesis for the words of the table only.
syllabify(s) == syllabify_with_merge(s, "Indeterminate")

\* Token::num_syllables.
num_syllables(token) == Len(syllabify(token.text))

\* ends_with_diphthong: the diphthong the model's characters spell is the
\* accented alpha with an iota.
ends_with_diphthong(s) ==
    Len(s) >= 2 /\ SubSeq(s, Len(s) - 1, Len(s)) = <<"aa", "io">>

\* The positions in s of the letters of the syllable at position pos, counted
\* from the end and from 1 (none when s has no such syllable).
syllable_at(s, pos) ==
    LET starts == syllable_starts(s, "Indeterminate")
        k == Cardinality(starts) - pos + 1
    IN  IF s = <<>> \/ pos < 1 \/ k < 1 THEN {}
        ELSE nth_start(starts, k)..syllable_end(s, starts, k)

\* grac::remove_diacritic_at(s, pos, ACUTE): the acute of the syllable at
\* position pos from the end is removed.
remove_diacritic_at(s, pos) ==
    [i \in 1..Len(s) |-> IF i \in syllable_at(s, pos) /\ s[i] = "aa" THEN "al" ELSE s[i]]

\* grac::add_acute_at(s, pos): the last vowel of the syllable at position pos
\* from the end gets an acute.  Of the accented vowels the model has the
\* alpha only: another vowel is left as it is.
add_acute_at(s, pos) ==
    LET vowels == {i \in syllable_at(s, pos) : is_vowel(s[i])}
    IN  [i \in 1..Len(s) |->
            IF i \in vowels /\ (\A j \in vowels : j <= i) /\ s[i] = "al" THEN "aa"
            ELSE s[i]]

\* ----------------------------------------------------- token properties
\* Token::is_num: a punctuation token made of ASCII digits.
is_num(token) ==
    token.kind = "Punctuation" /\ \A i \in 1..Len(token.text) : token.text[i] = "d1"

\* Token::is_apostrophe: a punctuation token that starts with an apostrophe.
is_apostrophe(token) ==
    token.kind = "Punctuation" /\ token.text # <<>> /\ Head(token.text) \in APOSTROPHES

previous_token_is_num(doc, token) ==
    prev_token_not_whitespace(doc, token) # None
        /\ is_num(prev_token_not_whitespace(doc, token))

previous_token_is_apostrophe(doc, token) ==
    prev_token_not_whitespace(doc, token) # None
        /\ is_apostrophe(prev_token_not_whitespace(doc, token))

\* ------------------------------------------------------- duplicated word
\* PRONOUNS_LOWERCASE restricted to the characters of the model: they spell
\* none of the fifteen pronouns.
PRONOUNS_LOWERCASE == {}

\* DUPLICATED_WORD_EXCEPTIONS restricted to the characters of the model.
DUPLICATED_WORD_EXCEPTIONS == {<<"mu", "io", "al">>}

\* duplicated_word_opt: the following non-whitespace token repeats this one,
\* which is neither short, nor an exception, nor a pronoun.
duplicated_word_opt(token, doc) ==
    IF \/ len(token.text) < 3
       \/ token.text \in DUPLICATED_WORD_EXCEPTIONS
       \/ token.text \in PRONOUNS_LOWERCASE
    THEN None
    ELSE LET ntoken == next_token_not_whitespace(doc, token)
         IN  IF ntoken # None /\ ntoken.text = token.text THEN ntoken ELSE None

\* duplicated_word: reported without a fix.
duplicated_word(token, doc) ==
    LET ntoken == duplicated_word_opt(token, doc)
    IN  IF ntoken = None THEN <<>>
        ELSE <<Diagnostic("DuplicatedWord",
                          TextRange(range(token).start, range(ntoken).end), None)>>

\* ------------------------------------------------------ forbidden accent
\* diacritic_pos: the positions, counted from the end of the word and from 1,
\* of the syllables that carry an acute, nearest the end first.
RECURSIVE diacritic_pos_from(_, _)
diacritic_pos_from(syllables, index) ==
    IF index >= Len(syllables) THEN <<>>
    ELSE (IF has_diacritic(syllables[Len(syllables) - index]) THEN <<index + 1>> ELSE <<>>)
         \o diacritic_pos_from(syllables, index + 1)

diacritic_pos(s, merge) == diacritic_pos_from(syllabify_with_merge(s, merge), 0)

\* skip_heuristic: shorter than 10 bytes, or not made of Greek letters only.
skip_heuristic(token) ==
    len(token.text) < 10 \/ \E i \in 1..Len(token.text) : ~is_greek_char(token.text[i])

\* CORRECT_MULTISYLLABLE_NOT_ACCENTED restricted to the characters of the
\* model: they spell none of its words.
CORRECT_MULTISYLLABLE_NOT_ACCENTED == {}

\* PRONOUN_VARIANTS restricted to the characters of the model.
PRONOUN_VARIANTS == {<<"mu", "om", "io">>, <<"mu">>}

ALLOWED_WORDS_AFTER_DOUBLE_ACCENT ==
    PRONOUNS_LOWERCASE \cup CORRECT_MULTISYLLABLE_NOT_ACCENTED \cup PRONOUN_VARIANTS

\* The test of the two accents that both evaluators make: the accents are
\* not on the last and the antepenultimate syllable, or the next Greek word
\* is not an allowed one.
double_accent_misplaced(token, doc) ==
    IF diacritic_pos(token.text, "Never") # <<1, 3>> THEN TRUE
    ELSE IF next_token_greek_word(doc, token) # None
         THEN next_token_greek_word(doc, token).text \notin ALLOWED_WORDS_AFTER_DOUBLE_ACCENT
         ELSE FALSE

\* forbidden_accent_opt: an accent before the antepenultimate syllable, or
\* two misplaced accents; the rule it names, or None.
forbidden_accent_opt(token, doc) ==
    IF skip_heuristic(token) THEN None
    ELSE LET pos == diacritic_pos(token.text, "Every")
         IN  IF pos # <<>> /\ pos[Len(pos)] > 3 THEN [rule |-> "ForbiddenAccent"]
             ELSE IF Len(pos) > 1 /\ double_accent_misplaced(token, doc)
                  THEN [rule |-> "ForbiddenDoubleAccent"]
             ELSE None

\* forbidden_accent: reported without a fix.
forbidden_accent(token, doc) ==
    IF token.kind = "GreekWord" /\ forbidden_accent_opt(token, doc) # None
    THEN <<Diagnostic("ForbiddenAccent", range(token), None)>>
    ELSE <<>>

\* forbidden_double_accent_opt: two accents at other places than the last and
\* the antepenultimate syllable, or followed by a Greek word that is no
\* pronoun.
forbidden_double_accent_opt(token, doc) ==
    IF skip_heuristic(token) THEN FALSE
    ELSE IF Len(diacritic_pos(token.text, "Every")) > 1
         THEN double_accent_misplaced(token, doc)
         ELSE FALSE

\* forbidden_double_accent: the fix removes the accent of the last syllable.
forbidden_double_accent(token, doc) ==
    IF token.kind = "GreekWord" /\ forbidden_double_accent_opt(token, doc)
    THEN <<Diagnostic("ForbiddenDoubleAccent", range(token),
                      Fix(remove_diacritic_at(token.text, 1), range(token)))>>
    ELSE <<>>

\* --------------------------------------------------------------- accents
\* MONOSYLLABLE_ACCENTED_WITH_PRONOUNS and EXTRA_MONOSYLLABLES restricted to
\* the characters of the model: they spell none of their words.
MONOSYLLABLE_ACCENTED_WITH_PRONOUNS == {}

EXTRA_MONOSYLLABLES == {}

is_monosyllable_accented(token) ==
    /\ len(token.text) < 12
    /\ has_diacritic(token.text)
    /\ ~ends_with_diphthong(token.text)
    /\ num_syllables(token) = 1

monosyllable_accented_opt(token, doc) ==
    IF \/ token.kind # "GreekWord"
       \/ token.text \in MONOSYLLABLE_ACCENTED_WITH_PRONOUNS
       \/ is_abbreviation_or_ends_with_dot(doc, token)
       \/ previous_token_is_num(doc, token)
       \/ previous_token_is_apostrophe(doc, token)
    THEN FALSE
    ELSE token.text \in EXTRA_MONOSYLLABLES \/ is_monosyllable_accented(token)

\* monosyllable_accented: the fix removes the accent.
monosyllable_accented(token, doc) ==
    IF monosyllable_accented_opt(token, doc)
    THEN <<Diagnostic("MonosyllableAccented", range(token),
                      Fix(remove_diacritic_at(token.text, 1), range(token)))>>
    ELSE <<>>

is_multisyllable_not_accented(token) ==
    ~has_diacritic(token.text) /\ num_syllables(token) > 1

\* PROSTAKTIKOI restricted to the characters of the model.
PROSTAKTIKOI == {<<"al", "id">>}

\* is_dash: the model has neither dash.
is_dash(ch) == FALSE

multisyllable_not_accented_opt(token, doc) ==
    LET ptoken == prev_token_not_whitespace(doc, token)
        ntoken == next_token_not_whitespace(doc, token)
    IN  IF \/ token.kind # "GreekWord"
           \/ token.text \in CORRECT_MULTISYLLABLE_NOT_ACCENTED
           \/ is_abbreviation_or_ends_with_dot(doc, token)
           \/ previous_token_is_num(doc, token)
           \/ \A i \in 1..Len(token.text) : is_uppercase(token.text[i])
           \/ \E i \in 1..Len(token.text) : token.text[i] = "dot"
        THEN FALSE
        ELSE IF /\ ptoken # None
                /\ ptoken.kind = "Punctuation"
                /\ ptoken.text # <<>>
                /\ Head(ptoken.text) \in APOSTROPHES
        THEN FALSE
        ELSE IF /\ ntoken # None
                /\ ntoken.kind = "Punctuation"
                /\ ntoken.text # <<>>
                /\ \/ Head(ntoken.text) \in APOSTROPHES
                   \/ token.text \in PROSTAKTIKOI /\ is_dash(Head(ntoken.text))
        THEN FALSE
        ELSE is_multisyllable_not_accented(token)

\* multisyllable_not_accented: reported without a fix.
multisyllable_not_accented(token, doc) ==
    IF multisyllable_not_accented_opt(token, doc)
    THEN <<Diagnostic("MultisyllableNotAccented", range(token), None)>>
    ELSE <<>>

\* ------------------------------------------------ missing accent, capital
\* is_capitalized: the first character is uppercase and the rest lowercase.
is_capitalized(s) ==
    /\ s # <<>>
    /\ is_uppercase(Head(s))
    /\ \A i \in 2..Len(s) : is_lowercase(s[i])

missing_accent_capital_opt(token, doc) ==
    /\ is_capitalized(token.text)
    /\ ~has_any_diacritic(token.text)
    /\ is_vowel(Head(token.text))
    /\ ~is_abbreviation_or_ends_with_dot(doc, token)

\* missing_accent_capital: the fix accents the first syllable.
missing_accent_capital(token, doc) ==
    IF missing_accent_capital_opt(token, doc) /\ num_syllables(token) > 1
    THEN <<Diagnostic("MissingAccentCapital", range(token),
                      Fix(add_acute_at(token.text, num_syllables(token)), range(token)))>>
    ELSE <<>>

\* ---------------------------------------------------------------- final n
\* PLOSIVE_CLUSTERS, CANDIDATES_REM and CANDIDATES_ADD restricted to the
\* characters of the model: they spell none of their words, nor the words
\* of the two archaic constructions the evaluators except.
PLOSIVE_CLUSTERS == {}

CANDIDATES_REM == {}

CANDIDATES_ADD == {}

\* remove_last_char.
remove_last_char(s) == SubSeq(s, 1, Len(s) - 1)

starts_with(s, prefix) ==
    Len(prefix) <= Len(s) /\ SubSeq(s, 1, Len(prefix)) = prefix

starts_with_vowel_or_plosive(token) ==
    /\ token.text # <<>>
    /\ \/ \E prefix \in PLOSIVE_CLUSTERS : starts_with(token.text, prefix)
       \/ is_vowel(Head(token.text))

remove_final_n_opt(token, doc) ==
    IF token.text \notin CANDIDATES_REM THEN FALSE
    ELSE LET ntoken == next_token_not_whitespace(doc, token)
         IN  /\ ntoken # None
             /\ ntoken.kind = "GreekWord"
             /\ ~starts_with_vowel_or_plosive(ntoken)

\* remove_final_n: the fix drops the last character.
remove_final_n(token, doc) ==
    IF remove_final_n_opt(token, doc)
    THEN <<Diagnostic("RemoveFinalN", range(token),
                      Fix(remove_last_char(token.text), range(token)))>>
    ELSE <<>>

add_final_n_opt(token, doc) ==
    IF token.text \notin CANDIDATES_ADD THEN FALSE
    ELSE LET ntoken == next_token_not_whitespace(doc, token)
         IN  /\ ntoken # None
             /\ starts_with_vowel_or_plosive(ntoken)

\* add_final_n: the fix appends a nu.
add_final_n(token, doc) ==
    IF add_final_n_opt(token, doc)
    THEN <<Diagnostic("AddFinalN", range(token),
                      Fix(Append(token.text, "nu"), range(token)))>>
    ELSE <<>>

\* -------------------------------------------------- missing double accents
\* MULTIPLE_PRONUNCIATION, STOKEN_AMBIGUOUS_INITIAL_PUNCT, STOKEN_SEPARATOR_WORDS
\* and SE_TO_COMPOUNDS restricted to the characters of the model, which spell
\* neither of the two diminutive endings nor a bracket.
MULTIPLE_PRONUNCIATION == {}

STOKEN_AMBIGUOUS_INITIAL_PUNCT == {<<"dot", "dot", "dot">>}

STOKEN_SEPARATOR_WORDS == {}

SE_TO_COMPOUNDS == {}

\* is_proparoxytone_strict: the only accent is on the antepenultimate.
is_proparoxytone_strict(word) == diacritic_pos(word, "Indeterminate") = <<3>>

\* lemmatize: the final nus are trimmed (the prefix it trims is outside the
\* characters of the model).
RECURSIVE lemmatize(_)
lemmatize(s) ==
    IF s # <<>> /\ s[Len(s)] = "nu" THEN lemmatize(SubSeq(s, 1, Len(s) - 1)) ELSE s

\* followed_by_elliptic_abbreviation: the model's characters spell none of
\* the abbreviations.
followed_by_elliptic_abbreviation(token, doc) == FALSE

\* missing_double_accents_opt: the next token is a pronoun and the one after
\* it shows that the pronoun belongs to this word.
missing_double_accents_opt(token, doc) ==
    LET ntoken == get(doc, token.index + 1)
        nntoken == get(doc, token.index + 2)
    IN  IF ntoken = None THEN FALSE
        ELSE IF ntoken.kind = "Punctuation" \/ ntoken.text \notin PRONOUNS_LOWERCASE
        THEN FALSE
        ELSE IF token.text \in MULTIPLE_PRONUNCIATION THEN FALSE
        ELSE IF nntoken = None THEN FALSE
        ELSE IF nntoken.kind = "Punctuation"
        THEN /\ nntoken.text # <<>>
             /\ \A punct \in STOKEN_AMBIGUOUS_INITIAL_PUNCT : ~starts_with(nntoken.text, punct)
             /\ Head(nntoken.text) \notin APOSTROPHES
             /\ Head(nntoken.text) # "d1"
        ELSE \/ nntoken.text \in STOKEN_SEPARATOR_WORDS
             \/ ntoken.text = nntoken.text
             \/ nntoken.text \in SE_TO_COMPOUNDS
             \/ followed_by_elliptic_abbreviation(nntoken, doc)
             \/ nntoken.text = <<"nu", "al">>

\* missing_double_accents: the fix accents the last syllable.
missing_double_accents(token, doc) ==
    IF missing_double_accents_opt(token, doc)
           /\ is_proparoxytone_strict(lemmatize(token.text))
    THEN <<Diagnostic("MissingDoubleAccents", range(token),
                      Fix(add_acute_at(token.text, 1) \o whitespace(token, doc),
                          Token_range(token, doc)))>>
    ELSE <<>>

\* -------------------------------------------------------- forbidden char
\* wrong_after_sigma: a Greek letter after a final sigma.
wrong_after_sigma(c) == is_greek_char(c)

\* The final sigma is outside the characters of the model.
is_final_sigma(c) == FALSE

\* forbidden_char: every final sigma followed by a Greek letter, reported
\* without a fix.
RECURSIVE forbidden_char_from(_, _)
forbidden_char_from(text, i) ==
    IF i >= Len(text) THEN <<>>
    ELSE (IF is_final_sigma(text[i]) /\ wrong_after_sigma(text[i + 1])
          THEN <<Diagnostic("ForbiddenChar",
                            TextRange(len(SubSeq(text, 1, i - 1)), len(SubSeq(text, 1, i))),
                            None)>>
          ELSE <<>>) \o forbidden_char_from(text, i + 1)

forbidden_char(text) == forbidden_char_from(text, 1)

\* PUNCT_STARTING_STRINGS restricted to the characters of the model.
PUNCT_STARTING_STRINGS == {<<"nu">>, <<"mu">>}

\* punctuation_opt: the word has an apostrophe right after one of the starting
\* strings; the replacement puts a space after the apostrophe.
punctuation_opt(token) ==
    LET apostrophe_idx == find_char(token.text, "ap", 0)
    IN  IF apostrophe_idx < 0 THEN None
        ELSE LET fst_substr == slice(token.text, 0, apostrophe_idx)
                 rest == slice(token.text, apostrophe_idx + 1, len(token.text))
             IN  IF fst_substr \notin PUNCT_STARTING_STRINGS THEN None
                 ELSE fst_substr \o <<"ap", "sp">> \o rest

\* punctuation: the fix covers the token.
punctuation(token) ==
    LET replacement == punctuation_opt(token)
    IN  IF replacement = None THEN <<>>
        ELSE <<Diagnostic("Punctuation", range(token), Fix(replacement, range(token)))>>

\* ----------------------------------------------------------------- checker
\* check_token_with_context: the rules of a Greek word, in dispatch order.
check_token_with_context(token, doc, config) ==
    (IF "MonosyllableAccented" \in config THEN monosyllable_accented(token, doc) ELSE <<>>)
    \o (IF "MissingAccentCapital" \in config
        THEN missing_accent_capital(token, doc)
        ELSE <<>>)
    \o (IF "MultisyllableNotAccented" \in config
        THEN multisyllable_not_accented(token, doc)
        ELSE <<>>)
    \o (IF "MissingDoubleAccents" \in config
        THEN missing_double_accents(token, doc)
        ELSE <<>>)
    \o (IF "AddFinalN" \in config THEN add_final_n(token, doc) ELSE <<>>)
    \o (IF "RemoveFinalN" \in config THEN remove_final_n(token, doc) ELSE <<>>)
    \o (IF "DuplicatedWord" \in config THEN duplicated_word(token, doc) ELSE <<>>)
    \o (IF "ForbiddenAccent" \in config THEN forbidden_accent(token, doc) ELSE <<>>)
    \o (IF "ForbiddenDoubleAccent" \in config
        THEN forbidden_double_accent(token, doc)
        ELSE <<>>)
    \o (IF "Punctuation" \in config THEN punctuation(token) ELSE <<>>)

\* check_raw when the static AC holds the automaton `ac`: the rules that need
\* no tokenizing.
check_raw_with(ac, text, config) ==
    (IF "OutdatedSpelling" \in config THEN outdated_spelling(ac, text) ELSE <<>>)
    \o (IF "AmbiguousChar" \in config THEN ambiguous_char(text) ELSE <<>>)
    \o (IF "ForbiddenChar" \in config THEN forbidden_char(text) ELSE <<>>)

\* check_raw: AC.get_or_init returns the automaton of the outdated spellings.
check_raw(text, config) == check_raw_with(AhoCorasick_new, text, config)

\* The loop of check that runs the rules of Greek words on every word.
RECURSIVE check_tokens_any_word(_, _, _)
check_tokens_any_word(doc, rules_requiring_doc, i) ==
    IF i > Len(doc.tokens) THEN <<>>
    ELSE LET token == doc.tokens[i]
             here == IF token.kind \in {"Whitespace", "Punctuation"} THEN <<>>
                     ELSE check_token_with_context(token, doc, rules_requiring_doc)
                          \o (IF token.kind = "Word" /\ "MixedScripts" \in rules_requiring_doc
                              THEN mixed_scripts(token, doc)
                              ELSE <<>>)
         IN  here \o check_tokens_any_word(doc, rules_requiring_doc, i + 1)

\* The `for token in &doc` loop of check, from the 1-based position i.
RECURSIVE check_tokens(_, _, _)
check_tokens(doc, rules_requiring_doc, i) ==
    IF i > Len(doc.tokens) THEN <<>>
    ELSE LET token == doc.tokens[i]
             here == IF token.kind \in {"Whitespace", "Punctuation"} THEN <<>>
                     ELSE IF token.kind = "GreekWord"
                          THEN check_token_with_context(token, doc, rules_requiring_doc)
                     ELSE IF "MixedScripts" \in rules_requiring_doc
                          THEN mixed_scripts(token, doc)
                     ELSE <<>>
         IN  here \o check_tokens(doc, rules_requiring_doc, i + 1)

\* check without the early exit: the Doc is always built.
check_always_tokenizing(text, config) ==
    LET raw == check_raw(text, config)
        rules_requiring_doc == {r \in config : requires_tokenizing(r)}
        doc == tokenize(text)
    IN  [diagnostics |-> raw \o check_tokens(doc, rules_requiring_doc, 1), doc |-> doc]

\* check with the token-context diagnostics ahead of the raw-text ones.
check_tokens_first(text, config) ==
    LET raw == check_raw(text, config)
        rules_requiring_doc == {r \in config : requires_tokenizing(r)}
    IN  IF rules_requiring_doc = {} THEN [diagnostics |-> raw, doc |-> None]
        ELSE LET doc == tokenize(text)
             IN  [diagnostics |-> check_tokens(doc, rules_requiring_doc, 1) \o raw,
                  doc |-> doc]

\* check when the static AC holds the automaton `ac`: the diagnostics, and the
\* Doc it built (None when it built none).
check_with(ac, text, config) ==
    LET raw == check_raw_with(ac, text, config)
        rules_requiring_doc == {r \in config : requires_tokenizing(r)}
    IN  IF rules_requiring_doc = {} THEN [diagnostics |-> raw, doc |-> None]
        ELSE LET doc == tokenize(text)
             IN  [diagnostics |-> raw \o check_tokens(doc, rules_requiring_doc, 1),
                  doc |-> doc]

\* check: AC.get_or_init returns the automaton of the outdated spellings.
check(text, config) == check_with(AhoCorasick_new, text, config)

\* ------------------------------------------------------------------- fixer
MAX_ITERATIONS == 100

\* cmp_fix: DuplicatedWord first, then ascending start of the fix range.
cmp_fix(rule1, rule2, fix1, fix2) ==
    IF rule1 = "DuplicatedWord" THEN "Less"
    ELSE IF rule2 = "DuplicatedWord" THEN "Greater"
    ELSE IF fix1.range.start < fix2.range.start THEN "Less"
    ELSE IF fix1.range.start > fix2.range.start THEN "Greater"
    ELSE "Equal"

\* The comparison closure handed to sorted_by, as the is_less of the sort.
is_less(a, b) == cmp_fix(a.rule, b.rule, a.fix, b.fix) = "Less"

\* Insertion of x at the tail of the sorted run v (slice::sort_by on a short
\* slice is an insertion sort: x moves left while it is less than its left
\* neighbour).
RECURSIVE insert_tail(_, _)
insert_tail(v, x) ==
    IF v = <<>> \/ ~is_less(x, v[Len(v)]) THEN Append(v, x)
    ELSE Append(insert_tail(SubSeq(v, 1, Len(v) - 1), x), v[Len(v)])

\* The insertion sort of slice::sort_by: every element in turn is inserted
\* at the tail of the sorted run before it.
RECURSIVE insertion_sort(_)
insertion_sort(v) ==
    IF v = <<>> THEN <<>>
    ELSE insert_tail(insertion_sort(SubSeq(v, 1, Len(v) - 1)), v[Len(v)])

\* slice::sort_by sorts a slice of at most this many elements by insertion.
SMALL_SORT_THRESHOLD == 20

\* cmp_fix is a total order on v: at most one of its fixes is from
\* DuplicatedWord.
totally_ordered(v) ==
    Cardinality({i \in 1..Len(v) : v[i].rule = "DuplicatedWord"}) <= 1

\* The result of a sort whose order the standard library leaves open.
Unspecified == [unspecified |-> TRUE]

\* Itertools::sorted_by with the cmp_fix closure (stable).  A short slice is
\* sorted by insertion; a longer one by a merge sort, which yields the same
\* list when cmp_fix is a total order on it and an unspecified one otherwise.
sorted_by(v) ==
    IF Len(v) <= SMALL_SORT_THRESHOLD \/ totally_ordered(v) THEN insertion_sort(v)
    ELSE Unspecified

\* The diagnostics that carry a fix, as (rule, fix) pairs in diagnostic order.
RECURSIVE with_fixes(_)
with_fixes(diags) ==
    IF diags = <<>> THEN <<>>
    ELSE (IF Head(diags).fix # None
          THEN <<[rule |-> Head(diags).kind, fix |-> Head(diags).fix]>>
          ELSE <<>>) \o with_fixes(Tail(diags))

\* rfixes of one iteration.
rfixes_of(diags) == sorted_by(with_fixes(diags))

\* Counter entry(rule).or_insert(0) += 1.
bump(fixed, rule) ==
    IF rule \in DOMAIN fixed THEN [fixed EXCEPT ![rule] = @ + 1]
    ELSE fixed @@ (rule :> 1)

\* The state of the `for (rule, fix) in rfixes` loop before its first turn.
\* last_pos = -1 stands for None.  `applied` lists the positions in rfixes of
\* the fixes applied so far and `placed`, for each of them, the offset at
\* which its replacement was written, counted in the bytes of
\* final_transformed followed by transformed_this_iter.
walk_start(final, fixed) ==
    [last_pos |-> -1, first_fix |-> TRUE, final |-> final, this_iter |-> <<>>,
     fixed |-> fixed, applied |-> <<>>, placed |-> <<>>]

\* The turn of the loop body that forgets the text between the previous fix
\* and this one.
walk_apply_dropping(transformed, w, rf, i) ==
    LET at == len(w.final) + len(w.this_iter)
    IN  [last_pos  |-> rf.fix.range.end,
         first_fix |-> FALSE,
         final     |-> IF w.first_fix THEN w.final \o rf.fix.replacement ELSE w.final,
         this_iter |-> IF w.first_fix THEN w.this_iter
                       ELSE w.this_iter \o rf.fix.replacement,
         fixed     |-> bump(w.fixed, rf.rule),
         applied   |-> Append(w.applied, i),
         placed    |-> Append(w.placed, at)]

\* The turn of the loop body with first_fix held false: every fix is written
\* to transformed_this_iter and nothing to the accumulator.
walk_apply_rescanning(transformed, w, rf, i) ==
    LET from == IF w.last_pos < 0 THEN 0 ELSE w.last_pos
        piece == slice(transformed, from, rf.fix.range.start)
        at == len(w.final) + len(w.this_iter) + len(piece)
    IN  [last_pos  |-> rf.fix.range.end,
         first_fix |-> FALSE,
         final     |-> w.final,
         this_iter |-> w.this_iter \o piece \o rf.fix.replacement,
         fixed     |-> bump(w.fixed, rf.rule),
         applied   |-> Append(w.applied, i),
         placed    |-> Append(w.placed, at)]

\* The turn of the loop body with the two buffers taken for each other: the
\* first fix of the pass is written to transformed_this_iter and the later
\* ones to the accumulator.
walk_apply_swapped_buffers(transformed, w, rf, i) ==
    LET from == IF w.last_pos < 0 THEN 0 ELSE w.last_pos
        piece == slice(transformed, from, rf.fix.range.start)
        at == len(w.final) + len(w.this_iter) + len(piece)
    IN  [last_pos  |-> rf.fix.range.end,
         first_fix |-> FALSE,
         final     |-> IF w.first_fix THEN w.final
                       ELSE w.final \o piece \o rf.fix.replacement,
         this_iter |-> IF w.first_fix THEN w.this_iter \o piece \o rf.fix.replacement
                       ELSE w.this_iter,
         fixed     |-> bump(w.fixed, rf.rule),
         applied   |-> Append(w.applied, i),
         placed    |-> Append(w.placed, at)]

\* The turn of the loop body that keeps the start of the fix, not its end, as
\* last_pos.
walk_apply_last_pos_start(transformed, w, rf, i) ==
    LET from == IF w.last_pos < 0 THEN 0 ELSE w.last_pos
        piece == slice(transformed, from, rf.fix.range.start)
        at == len(w.final) + len(w.this_iter) + len(piece)
    IN  [last_pos  |-> rf.fix.range.start,
         first_fix |-> FALSE,
         final     |-> IF w.first_fix THEN w.final \o piece \o rf.fix.replacement
                       ELSE w.final,
         this_iter |-> IF w.first_fix THEN w.this_iter
                       ELSE w.this_iter \o piece \o rf.fix.replacement,
         fixed     |-> bump(w.fixed, rf.rule),
         applied   |-> Append(w.applied, i),
         placed    |-> Append(w.placed, at)]

\* One turn of the loop body for a fix that is not skipped.
walk_apply(transformed, w, rf, i) ==
    LET from == IF w.last_pos < 0 THEN 0 ELSE w.last_pos
        piece == slice(transformed, from, rf.fix.range.start)
        at == len(w.final) + len(w.this_iter) + len(piece)
    IN  [last_pos  |-> rf.fix.range.end,
         first_fix |-> FALSE,
         final     |-> IF w.first_fix THEN w.final \o piece \o rf.fix.replacement
                       ELSE w.final,
         this_iter |-> IF w.first_fix THEN w.this_iter
                       ELSE w.this_iter \o piece \o rf.fix.replacement,
         fixed     |-> bump(w.fixed, rf.rule),
         applied   |-> Append(w.applied, i),
         placed    |-> Append(w.placed, at)]

\* The walk that counts a fix before it tests last_pos: the fix at which it
\* stops is counted too.
RECURSIVE walk_counting_first(_, _, _, _)
walk_counting_first(transformed, rfixes, i, w) ==
    IF i > Len(rfixes) THEN w
    ELSE IF w.last_pos >= 0 /\ w.last_pos > rfixes[i].fix.range.start
         THEN [w EXCEPT !.fixed = bump(w.fixed, rfixes[i].rule)]
    ELSE walk_counting_first(transformed, rfixes, i + 1,
                             walk_apply(transformed, w, rfixes[i], i))

\* The loop over rfixes from position i: it breaks at the first fix that
\* starts before last_pos, and the slice of the text up to a fix panics when
\* the fix starts outside the text or inside a character.
RECURSIVE walk(_, _, _, _)
walk(transformed, rfixes, i, w) ==
    IF i > Len(rfixes) THEN w
    ELSE IF w.last_pos >= 0 /\ w.last_pos > rfixes[i].fix.range.start THEN w
    ELSE IF ~can_slice(transformed, IF w.last_pos < 0 THEN 0 ELSE w.last_pos,
                       rfixes[i].fix.range.start)
         THEN Panic
    ELSE walk(transformed, rfixes, i + 1, walk_apply(transformed, w, rfixes[i], i))

\* One apply pass: the walk, then the tail of the text after the last fix
\* (a slice that panics when the last fix ends outside the text).
apply_pass(transformed, final, fixed, rfixes) ==
    LET w == walk(transformed, rfixes, 1, walk_start(final, fixed))
    IN  IF w = Panic THEN Panic
        ELSE IF w.last_pos >= 0 /\ ~can_slice(transformed, w.last_pos, len(transformed))
        THEN Panic
        ELSE [final       |-> w.final,
              transformed |-> IF w.last_pos >= 0
                              THEN w.this_iter
                                   \o slice(transformed, w.last_pos, len(transformed))
                              ELSE w.this_iter,
              fixed       |-> w.fixed,
              applied     |-> w.applied,
              placed      |-> w.placed]

\* ------------------------------------------- rule doubles of the scenarios
\* Two token-context rules over the same range: A rewrites the Greek word
\* "al" to "om", B rewrites "om" back to "al".
RECURSIVE scenario_tokens(_, _)
scenario_tokens(doc, i) ==
    IF i > Len(doc.tokens) THEN <<>>
    ELSE LET token == doc.tokens[i]
             here == IF token.kind = "GreekWord" /\ token.text = <<"al">>
                     THEN <<Diagnostic("ScenarioA", range(token),
                                       Fix(<<"om">>, range(token)))>>
                     ELSE IF token.kind = "GreekWord" /\ token.text = <<"om">>
                     THEN <<Diagnostic("ScenarioB", range(token),
                                       Fix(<<"al">>, range(token)))>>
                     ELSE <<>>
         IN  here \o scenario_tokens(doc, i + 1)

scenario_check(text) ==
    LET doc == tokenize(text)
    IN  [diagnostics |-> scenario_tokens(doc, 1), doc |-> doc]

\* The evaluators bound to the rule set of a run: the rules of the repository,
\* or the two doubles.
evaluate(scenario, text, config) ==
    IF scenario THEN scenario_check(text) ELSE check(text, config)

\* ------------------------------------------------------------------ inputs
\* Every text of at most n characters over the set cs.
TextsOver(cs, n) == UNION {[1..k -> cs] : k \in 0..n}

\* Longer texts: an overlap followed by a further fix, a duplicated word.
ExtraTexts ==
    {<<"al", "o", "mi", "sp", "al", "o">>,
     <<"al", "al", "sp", "al", "al">>}

\* Texts that need about MAX_ITERATIONS passes: a run of micro signs, of
\* which ambiguous_char reports only the first in every pass.
CapTexts == {[i \in 1..(MAX_ITERATIONS + d) |-> "mi"] : d \in {-1, 0, 1}}

Configs ==
    {{}, {"AmbiguousChar"}, {"MixedScripts"}, {"AmbiguousChar", "MixedScripts"},
     {"DuplicatedWord", "AmbiguousChar"},
     {"DuplicatedWord", "MixedScripts", "AmbiguousChar"}}

\* Texts with an apostrophe inside a Greek word, alone, repeated, and followed
\* by a micro sign; and one with an apostrophe inside a word that is not Greek.
PunctTexts ==
    {<<"mu", "ap", "al">>,
     <<"al", "ap", "al">>,
     <<"mu", "ap", "o">>,
     <<"mu", "ap", "al", "sp", "mu", "ap", "al">>,
     <<"mu", "ap", "al", "sp", "mu", "ap", "al", "sp", "mi">>}

PunctConfigs ==
    {{"Punctuation"}, {"DuplicatedWord", "Punctuation"},
     {"DuplicatedWord", "Punctuation", "AmbiguousChar"}}

\* Words with two accents: on the last two syllables; on the last and the
\* antepenultimate, followed by a pronoun, and by another word, without and
\* with consonants.
AccentTexts ==
    {<<"al", "al", "al", "aa", "aa">>,
     <<"al", "al", "aa", "al", "aa", "sp", "mu">>,
     <<"al", "al", "aa", "al", "aa", "sp", "al">>,
     <<"mu", "al", "mu", "aa", "mu", "al", "mu", "aa", "sp", "al">>,
     <<"mu", "al", "mu", "aa", "mu", "al", "mu", "aa", "sp", "mu", "om", "io">>}

AccentConfigs ==
    {{"ForbiddenDoubleAccent"}, {"ForbiddenDoubleAccent", "AmbiguousChar"},
     {"ForbiddenAccent", "ForbiddenDoubleAccent"}}

\* Greek words for the other rules of a word: an accented monosyllable, alone
\* and before a word without accent; an accent before the antepenultimate;
\* a repeated word that is an exception; a monosyllable after a digit; a
\* word of two syllables with a micro sign before its accented syllable.
WordTexts ==
    {<<"mu", "aa">>,
     <<"mu", "aa", "sp", "mu", "al", "mu", "al">>,
     <<"aa", "al", "al", "al", "al">>,
     <<"mu", "io", "al", "sp", "mu", "io", "al">>,
     <<"d1", "mu", "aa", "sp", "mi">>,
     <<"al", "mi", "mu", "aa">>}

WordConfigs ==
    {{"MonosyllableAccented"},
     {"AmbiguousChar", "MonosyllableAccented"},
     {"MonosyllableAccented", "MultisyllableNotAccented", "ForbiddenAccent",
      "DuplicatedWord", "AmbiguousChar"},
     Rule}

Inputs ==
    ({FALSE} \X (TextsOver(InputChars, MaxLen) \cup ExtraTexts) \X Configs)
    \cup ({FALSE} \X PunctTexts \X PunctConfigs)
    \cup ({FALSE} \X AccentTexts \X AccentConfigs)
    \cup ({FALSE} \X WordTexts \X WordConfigs)
    \cup ({FALSE} \X CapTexts \X {{"AmbiguousChar"}})
    \cup ({TRUE} \X TextsOver({"al", "om", "sp"}, MaxLen) \X {{}})

\* ------------------------------------------------------------------- state
VARIABLES
    scenario,           \* the run uses the rule doubles
    text,               \* the input text
    config,             \* the input rule set
    pc,                 \* Start, Scanning, Applying, Converged, Aborted, Linted
    active,             \* the rule set handed to check
    transformed,        \* fix: the working text
    final_transformed,  \* fix: the accumulator of settled text
    fixed,              \* fix: the per-rule counter
    iterations,         \* fix: completed apply passes
    diagnostics,        \* the result of the last check
    doc,                \* the Doc built by the last check, or None
    check_calls,        \* number of calls of check
    tokenize_calls,     \* number of calls of tokenize
    pass,               \* the last apply pass: its inputs and what it did
    warned,             \* the iteration-cap warning was printed
    result,             \* the value returned, or None
    AC,                 \* the static OnceLock of outdated_spelling: None or its value
    ac_inits,           \* number of times the initialiser of AC has run
    calls               \* the fix calls running in parallel, one record per thread

\* The state of one call, and the state at the side of it.
call_vars == <<scenario, text, config, pc, active, transformed, final_transformed,
               fixed, iterations, diagnostics, doc, check_calls, tokenize_calls,
               pass, warned, result>>

par_vars == <<AC, ac_inits, calls>>

vars == <<call_vars, par_vars>>

\* No call of check has run in the process: the static is untouched.
NoCalls ==
    /\ AC = None
    /\ ac_inits = 0
    /\ calls = <<>>

EmptyCounter == [r \in {} |-> 0]

Init ==
    /\ NoCalls
    /\ \E inp \in Inputs :
          /\ scenario = inp[1]
          /\ text = inp[2]
          /\ config = inp[3]
    /\ pc = "Start"
    /\ active = {}
    /\ transformed = <<>>
    /\ final_transformed = <<>>
    /\ fixed = EmptyCounter
    /\ iterations = 0
    /\ diagnostics = <<>>
    /\ doc = None
    /\ check_calls = 0
    /\ tokenize_calls = 0
    /\ pass = None
    /\ warned = FALSE
    /\ result = None

\* The caller of check takes what it returned: the diagnostics, and the Doc
\* when one was built.
checked(c) ==
    /\ diagnostics' = c.diagnostics
    /\ doc' = c.doc
    /\ tokenize_calls' = tokenize_calls + (IF c.doc = None THEN 0 ELSE 1)

\* What a call of check with the rules `rules` does to the static:
\* outdated_spelling, which runs when its rule is among them, starts with
\* AC.get_or_init.  The doubles of a scenario do not touch it.
check_static(is_scenario, rules) ==
    IF ~is_scenario /\ "OutdatedSpelling" \in rules
    THEN /\ AC' = get_or_init(AC).value
         /\ ac_inits' = ac_inits + get_or_init(AC).inits
    ELSE UNCHANGED <<AC, ac_inits>>

\* lint_only: one check of the text with the whole configuration.
LintOnly ==
    /\ check_static(scenario, config)
    /\ UNCHANGED calls
    /\ pc = "Start"
    /\ ~scenario
    /\ checked(check(text, config))
    /\ active' = config
    /\ check_calls' = check_calls + 1
    /\ pc' = "Linted"
    /\ UNCHANGED <<scenario, text, config, transformed, final_transformed, fixed,
                   iterations, pass, warned, result>>

\* The configuration as fix was given it.
rules_unfiltered(config0) == config0

\* rules_with_fixes: the configuration without the rules that have no fix.
rules_with_fixes(config0) == {r \in config0 : has_fix(r)}

\* fix, up to the loop: the rules without a fix leave the configuration.
FixStart ==
    /\ UNCHANGED par_vars
    /\ pc = "Start"
    /\ transformed' = text
    /\ active' = rules_with_fixes(config)
    /\ pc' = "Scanning"
    /\ UNCHANGED <<scenario, text, config, final_transformed, fixed, iterations,
                   diagnostics, doc, check_calls, tokenize_calls, pass, warned,
                   result>>

\* The return value without the accumulator.
returned_working_only(final, working, counter) == [text |-> working, fixed |-> counter]

\* The value fix returns.
returned(final, working, counter) == [text |-> final \o working, fixed |-> counter]

\* The head of the loop when no diagnostic carries a fix: break and return.
ScanNone ==
    /\ check_static(scenario, active)
    /\ UNCHANGED calls
    /\ pc = "Scanning"
    /\ checked(evaluate(scenario, transformed, active))
    /\ with_fixes(diagnostics') = <<>>
    /\ check_calls' = check_calls + 1
    /\ pc' = "Converged"
    /\ result' = returned(final_transformed, transformed, fixed)
    /\ UNCHANGED <<scenario, text, config, active, transformed, final_transformed,
                   fixed, iterations, pass, warned>>

\* The head of the loop when some diagnostic carries a fix.
ScanFound ==
    /\ check_static(scenario, active)
    /\ UNCHANGED calls
    /\ pc = "Scanning"
    /\ checked(evaluate(scenario, transformed, active))
    /\ with_fixes(diagnostics') # <<>>
    /\ check_calls' = check_calls + 1
    /\ pc' = "Applying"
    /\ UNCHANGED <<scenario, text, config, active, transformed, final_transformed,
                   fixed, iterations, pass, warned, result>>

\* The cap tested with `>`.
at_cap_exceeded(n) == n > MAX_ITERATIONS

\* The cap one pass later: the text of the 100th pass is checked before the
\* loop gives up.
at_cap_one_later(n) == n = MAX_ITERATIONS + 1

\* `iterations == MAX_ITERATIONS`, tested after the increment.
at_cap(n) == n = MAX_ITERATIONS

\* The rest of the loop body: sort, walk, swap the text, count the iteration;
\* at the cap, warn, break and return.  A panic of a slice ends the call
\* without a result.
Apply ==
    /\ UNCHANGED par_vars
    /\ pc = "Applying"
    /\ LET rfixes == rfixes_of(diagnostics)
           p == apply_pass(transformed, final_transformed, fixed, rfixes)
           cap == at_cap(iterations + 1)
       IN  IF p = Panic
           THEN /\ pc' = "Panicked"
                /\ pass' = [transformed |-> transformed, final |-> final_transformed,
                            rfixes |-> rfixes, applied |-> <<>>, placed |-> <<>>]
                /\ UNCHANGED <<final_transformed, transformed, fixed, iterations,
                               warned, result>>
           ELSE /\ final_transformed' = p.final
                /\ transformed' = p.transformed
                /\ fixed' = p.fixed
                /\ pass' = [transformed |-> transformed, final |-> final_transformed,
                            rfixes |-> rfixes, applied |-> p.applied,
                            placed |-> p.placed]
                /\ iterations' = iterations + 1
                /\ warned' = cap
                /\ pc' = IF cap THEN "Aborted" ELSE "Scanning"
                /\ result' = IF cap THEN returned(p.final, p.transformed, p.fixed)
                             ELSE result
    /\ UNCHANGED <<scenario, text, config, active, diagnostics, doc, check_calls,
                   tokenize_calls>>

Next == LintOnly \/ FixStart \/ ScanNone \/ ScanFound \/ Apply

Spec == Init /\ [][Next]_vars

\* ------------------------------------------------- one apply pass, isolated
\* The pass as a function of its inputs: a working text and any list of
\* (rule, fix) diagnostics, as a rule from outside the repository may report
\* them: ranges on character boundaries of the text, or reaching past its end.
PassText == <<"al", "o">>

PassRules == {"DuplicatedWord", "MixedScripts"}

\* The offsets of a fix range: the character boundaries of the text and one
\* offset past its end.
PassOffsets == {x \in 0..len(PassText) : is_char_boundary(PassText, x)} \cup {len(PassText) + 1}

\* A TextRange has start <= end: TextRange::new panics otherwise.
PassRanges == {r \in {TextRange(a, b) : a, b \in PassOffsets} : r # Panic}

PassFixes ==
    {Diagnostic(k, r, Fix(IF k = "DuplicatedWord" THEN <<>> ELSE <<"om">>, r)) :
        k \in PassRules, r \in PassRanges}

InitPass ==
    /\ NoCalls
    /\ scenario = FALSE
    /\ text = PassText
    /\ config = PassRules
    /\ pc = "Applying"
    /\ active = PassRules
    /\ transformed = PassText
    /\ final_transformed = <<>>
    /\ fixed = EmptyCounter
    /\ iterations = 0
    /\ diagnostics \in TextsOver(PassFixes, MaxFixes) \ {<<>>}
    /\ doc = None
    /\ check_calls = 1
    /\ tokenize_calls = 1
    /\ pass = None
    /\ warned = FALSE
    /\ result = None

SpecPass == InitPass /\ [][Apply]_vars

\* ------------------------------------------------- tokenize and the queries
\* A Doc is built from a text and a rule asks its lookaround queries about
\* one of its tokens.
DocChars == {"sp", "ap", "dot", "o", "al"}

\* Longer texts: a word with whitespace and other tokens on both sides; texts
\* with runs of different whitespace characters; texts with digits; texts
\* longer than u32::MAX bytes.
DocExtraTexts ==
    {<<"al", "sp", "o", "sp", "ap", "al">>}
    \cup TextsOver({"sp", "nl", "al"}, 4)
    \cup TextsOver({"d1", "al", "ap"}, 3)
    \cup {<<"d1", "al", "ap", "al", "dot">>}
    \cup {<<"gap">> \o t : t \in TextsOver({"al", "ap"}, 2)}
    \cup {t \o <<"gap">> : t \in TextsOver({"al", "ap"}, 2)}

InitDoc ==
    /\ NoCalls
    /\ scenario = FALSE
    /\ text \in TextsOver(DocChars, MaxLen) \cup DocExtraTexts
    /\ config = {}
    /\ pc = "Start"
    /\ active = {}
    /\ transformed = <<>>
    /\ final_transformed = <<>>
    /\ fixed = EmptyCounter
    /\ iterations = 0
    /\ diagnostics = <<>>
    /\ doc = None
    /\ check_calls = 0
    /\ tokenize_calls = 0
    /\ pass = None
    /\ warned = FALSE
    /\ result = None

\* tokenize(text): a Doc, or the panic of Token::new.
Tokenize ==
    /\ UNCHANGED par_vars
    /\ pc = "Start"
    /\ doc' = tokenize(text)
    /\ tokenize_calls' = tokenize_calls + 1
    /\ pc' = IF tokenize(text) = Panic THEN "Panicked" ELSE "Tokenized"
    /\ UNCHANGED <<scenario, text, config, active, transformed, final_transformed,
                   fixed, iterations, diagnostics, check_calls, pass, warned, result>>

\* The queries of Doc about one of its tokens.
Lookaround ==
    /\ UNCHANGED par_vars
    /\ pc = "Tokenized"
    /\ \E i \in 1..Len(doc.tokens) :
          result' = [token |-> doc.tokens[i],
                     next_not_whitespace |-> next_token_not_whitespace(doc, doc.tokens[i]),
                     prev_not_whitespace |-> prev_token_not_whitespace(doc, doc.tokens[i]),
                     next_greek_word |-> next_token_greek_word(doc, doc.tokens[i]),
                     is_abbreviation_or_ends_with_dot |->
                         is_abbreviation_or_ends_with_dot(doc, doc.tokens[i])]
    /\ pc' = "Queried"
    /\ UNCHANGED <<scenario, text, config, active, transformed, final_transformed,
                   fixed, iterations, diagnostics, doc, check_calls, tokenize_calls,
                   pass, warned>>

NextDoc == Tokenize \/ Lookaround

SpecDoc == InitDoc /\ [][NextDoc]_vars

\* ------------------------------------------------- fix calls in parallel
\* fix as a function of its arguments: the loop from the state of one
\* iteration to the value returned.
RECURSIVE fix_loop(_, _, _, _, _)
fix_loop(transformed0, final, fixed0, iterations0, config0) ==
    LET c == check(transformed0, config0)
    IN  IF with_fixes(c.diagnostics) = <<>> THEN returned(final, transformed0, fixed0)
        ELSE LET p == apply_pass(transformed0, final, fixed0, rfixes_of(c.diagnostics))
             IN  IF p = Panic THEN Panic
                 ELSE IF at_cap(iterations0 + 1)
                 THEN returned(p.final, p.transformed, p.fixed)
                 ELSE fix_loop(p.transformed, p.final, p.fixed, iterations0 + 1, config0)

fix(text0, config0) == fix_loop(text0, <<>>, EmptyCounter, 0, rules_with_fixes(config0))

\* The threads, each of which calls fix once.
Threads == {1, 2}

ParTexts ==
    {<<>>, <<"aa", "id">>, <<"aa", "id", "sp", "aa", "id">>, <<"aa", "id", "mi">>,
     <<"al", "o">>}

ParConfigs ==
    {{"OutdatedSpelling"}, {"OutdatedSpelling", "AmbiguousChar"},
     {"MixedScripts", "DuplicatedWord"}}

InitPar ==
    /\ scenario = FALSE
    /\ text = <<>>
    /\ config = {}
    /\ pc = "Parallel"
    /\ active = {}
    /\ transformed = <<>>
    /\ final_transformed = <<>>
    /\ fixed = EmptyCounter
    /\ iterations = 0
    /\ diagnostics = <<>>
    /\ doc = None
    /\ check_calls = 0
    /\ tokenize_calls = 0
    /\ pass = None
    /\ warned = FALSE
    /\ result = None
    /\ AC = None
    /\ ac_inits = 0
    /\ calls \in [Threads -> {[pc |-> "Start", text |-> t, config |-> c, active |-> {},
                              transformed |-> <<>>, final_transformed |-> <<>>,
                              fixed |-> EmptyCounter, iterations |-> 0,
                              diagnostics |-> <<>>, result |-> None] :
                                t \in ParTexts, c \in ParConfigs}]

\* fix of thread p, up to the loop.
ParStart(p) ==
    /\ calls[p].pc = "Start"
    /\ calls' = [calls EXCEPT ![p].pc = "Scanning",
                              ![p].transformed = calls[p].text,
                              ![p].active = rules_with_fixes(calls[p].config)]
    /\ UNCHANGED <<call_vars, AC, ac_inits>>

\* Thread p enters outdated_spelling: AC.get_or_init.
ParGetOrInit(p) ==
    /\ calls[p].pc = "Scanning"
    /\ "OutdatedSpelling" \in calls[p].active
    /\ AC' = get_or_init(AC).value
    /\ ac_inits' = ac_inits + get_or_init(AC).inits
    /\ calls' = [calls EXCEPT ![p].pc = "Checking"]
    /\ UNCHANGED call_vars

\* The check of thread p, reading the automaton the static holds, and the
\* exit of the loop when no diagnostic carries a fix.
ParCheck(p) ==
    /\ \/ calls[p].pc = "Checking"
       \/ calls[p].pc = "Scanning" /\ "OutdatedSpelling" \notin calls[p].active
    /\ LET c == check_with(AC, calls[p].transformed, calls[p].active)
       IN  calls' = IF with_fixes(c.diagnostics) = <<>>
                    THEN [calls EXCEPT ![p].pc = "Done",
                                       ![p].diagnostics = c.diagnostics,
                                       ![p].result = returned(calls[p].final_transformed,
                                                              calls[p].transformed,
                                                              calls[p].fixed)]
                    ELSE [calls EXCEPT ![p].pc = "Applying",
                                       ![p].diagnostics = c.diagnostics]
    /\ UNCHANGED <<call_vars, AC, ac_inits>>

\* The apply pass of thread p.
ParApply(p) ==
    /\ calls[p].pc = "Applying"
    /\ LET q == apply_pass(calls[p].transformed, calls[p].final_transformed,
                           calls[p].fixed, rfixes_of(calls[p].diagnostics))
           cap == at_cap(calls[p].iterations + 1)
       IN  calls' = [calls EXCEPT ![p].pc = IF cap THEN "Done" ELSE "Scanning",
                                  ![p].transformed = q.transformed,
                                  ![p].final_transformed = q.final,
                                  ![p].fixed = q.fixed,
                                  ![p].iterations = calls[p].iterations + 1,
                                  ![p].result = IF cap
                                                THEN returned(q.final, q.transformed, q.fixed)
                                                ELSE None]
    /\ UNCHANGED <<call_vars, AC, ac_inits>>

NextPar == \E p \in Threads : ParStart(p) \/ ParGetOrInit(p) \/ ParCheck(p) \/ ParApply(p)

SpecPar == InitPar /\ [][NextPar]_vars

\* ================================================================== claims
Terminal == {"Converged", "Aborted"}

\* The text of a state of fix: the accumulator followed by the working text.
Output == final_transformed \o transformed

RECURSIVE concat_texts(_)
concat_texts(tokens) ==
    IF tokens = <<>> THEN <<>> ELSE Head(tokens).text \o concat_texts(Tail(tokens))

overlapping(f, g) == f.range.start < g.range.end /\ g.range.start < f.range.end

\* C1: the tokens of every Doc that tokenize builds partition its text: the
\* first token starts at byte 0, every token starts where the previous one
\* ends, the last one ends at len(src), no token is empty, and the token
\* texts concatenated in order give back the text.
C1_Partition ==
    doc # None =>
        LET t == doc.tokens
            n == Len(t)
        IN  /\ (n = 0) <=> (doc.src = <<>>)
            /\ n > 0 => range(t[1]).start = 0 /\ range(t[n]).end = len(doc.src)
            /\ \A i \in 1..n : t[i].text # <<>>
            /\ \A i \in 1..n : t[i].text = slice(doc.src, range(t[i]).start, range(t[i]).end)
            /\ \A i \in 1..(n - 1) : range(t[i + 1]).start = range(t[i]).end
            /\ concat_texts(t) = doc.src

\* A Doc with leading punctuation, a multi-byte word and trailing punctuation.
C1_Witness ==
    /\ doc # None
    /\ \E i \in 1..(Len(doc.tokens) - 2) :
          /\ doc.tokens[i].kind = "Punctuation"
          /\ doc.tokens[i + 1].kind \in {"Word", "GreekWord"}
          /\ len(doc.tokens[i + 1].text) > Len(doc.tokens[i + 1].text)
          /\ doc.tokens[i + 2].kind = "Punctuation"

\* C2: the text fix returns when it converges with the rules of the
\* repository (none of which undoes another) is a fixed point: a check of it
\* with the same rules yields no diagnostic that carries a fix.
C2_ReturnedTextIsFixedPoint ==
    (pc = "Converged" /\ ~scenario) =>
        with_fixes(check(result.text, active).diagnostics) = <<>>

\* C3: fix runs at most MAX_ITERATIONS iterations: check is called at most
\* 100 times and at most 100 apply passes are executed.
C3_BoundedIterations ==
    /\ iterations <= MAX_ITERATIONS
    /\ check_calls <= MAX_ITERATIONS
    /\ pc = "Applying" => iterations < MAX_ITERATIONS

\* A run stopped by the cap after 100 checks and 100 passes, with text left.
C3_Witness ==
    /\ pc = "Aborted"
    /\ iterations = MAX_ITERATIONS
    /\ check_calls = MAX_ITERATIONS
    /\ transformed # <<>>

\* C4: at the cap fix returns: the text is the accumulator followed by the
\* working text the last apply pass produced, the counts are the counts
\* accumulated so far, and the warning is printed.
C4_CapReturnsLastPass ==
    pc = "Aborted" =>
        LET p == apply_pass(pass.transformed, pass.final, EmptyCounter, pass.rfixes)
        IN  /\ result # None
            /\ result.text = p.final \o p.transformed
            /\ result.text = Output
            /\ result.fixed = fixed
            /\ warned

\* The cap is hit with one micro sign still to fix; 100 fixes were counted.
C4_Witness ==
    /\ pc = "Aborted"
    /\ result.text = [i \in 1..(MAX_ITERATIONS + 1) |->
                        IF i <= MAX_ITERATIONS THEN "mu" ELSE "mi"]
    /\ result.fixed = ("AmbiguousChar" :> MAX_ITERATIONS)

\* C5: with the doubles A and B, fix of a text that contains the word A
\* flags ends at the iteration cap with the warning, never in Converged.
C5_CyclicRulesReachCap ==
    (/\ scenario
     /\ pc \in Terminal
     /\ \E i \in 1..Len(tokenize(text).tokens) :
           tokenize(text).tokens[i].text = <<"al">>)
    => (pc = "Aborted" /\ warned)

\* C6: check builds a Doc only when a rule of the configuration it is given
\* requires tokenizing, and then exactly once per call; otherwise it returns
\* the raw-text diagnostics and tokenize is never called.
C6_TokenizeShortCircuit ==
    ~scenario =>
        IF \E r \in active : requires_tokenizing(r)
        THEN tokenize_calls = check_calls /\ (check_calls > 0 => doc # None)
        ELSE /\ tokenize_calls = 0
             /\ doc = None
             /\ pc \in {"Applying", "Converged"} =>
                    diagnostics = check_raw(transformed, active)
             /\ pc = "Linted" => diagnostics = check_raw(text, active)

\* Two checks with a raw-text rule only: diagnostics found, no Doc built.
C6_Witness ==
    /\ ~scenario
    /\ active = {"AmbiguousChar"}
    /\ check_calls >= 2
    /\ tokenize_calls = 0
    /\ diagnostics # <<>>

\* The fix at position k of the walk order was applied in the last pass.
is_applied(k) == \E m \in 1..Len(pass.applied) : pass.applied[m] = k

\* The offset at which the replacement of the applied fix k was written.
placed_at(k) == pass.placed[CHOOSE m \in 1..Len(pass.applied) : pass.applied[m] = k]

\* The replacement of the applied fix k sits at its recorded offset of the
\* output of the pass.
placed_ok(k) ==
    slice(Output, placed_at(k), placed_at(k) + len(pass.rfixes[k].fix.replacement))
        = pass.rfixes[k].fix.replacement

\* C7 (as stated): for any two fixable diagnostics of a pass with
\* non-overlapping fix ranges and start1 < start2, of whatever kinds, both
\* replacements are in the output of the pass, the first before the second.
C7_OrderingAsStated ==
    (pass # None /\ pc \in {"Scanning", "Aborted"}) =>
        \A i, j \in 1..Len(pass.rfixes) :
            (/\ ~overlapping(pass.rfixes[i].fix, pass.rfixes[j].fix)
             /\ pass.rfixes[i].fix.range.start < pass.rfixes[j].fix.range.start)
            => /\ is_applied(i)
               /\ is_applied(j)
               /\ placed_at(i) + len(pass.rfixes[i].fix.replacement) <= placed_at(j)

\* C7 (amended): for any two fixes that are both applied in a pass, with
\* start1 < start2, of whatever kinds, the replacement of the first lies
\* before the replacement of the second in the output of the pass.
C7_OrderingOfApplied ==
    (pass # None /\ pc \in {"Scanning", "Aborted"}) =>
        \A i, j \in 1..Len(pass.rfixes) :
            (/\ is_applied(i)
             /\ is_applied(j)
             /\ pass.rfixes[i].fix.range.start < pass.rfixes[j].fix.range.start)
            => /\ placed_ok(i)
               /\ placed_ok(j)
               /\ placed_at(i) + len(pass.rfixes[i].fix.replacement) <= placed_at(j)

\* Two fixes of one rule with ranges that are not empty, both applied, the
\* second in the working text of the next pass.
C7_Witness ==
    /\ pass # None
    /\ pc = "Scanning"
    /\ \E i, j \in 1..Len(pass.rfixes) :
          /\ is_applied(i)
          /\ is_applied(j)
          /\ pass.rfixes[i].rule = "MixedScripts"
          /\ pass.rfixes[j].rule = "MixedScripts"
          /\ pass.rfixes[i].fix.range.start < pass.rfixes[i].fix.range.end
          /\ pass.rfixes[i].fix.range.end <= pass.rfixes[j].fix.range.start
          /\ pass.rfixes[j].fix.range.start < pass.rfixes[j].fix.range.end

\* C8 (as stated): of two fixes of a pass with overlapping ranges, exactly
\* one is applied, the one that comes first in the walk order, whatever
\* other fixes the pass has.
C8_OverlapAsStated ==
    (pass # None /\ pc \in {"Scanning", "Aborted"}) =>
        \A i, j \in 1..Len(pass.rfixes) :
            (i < j /\ overlapping(pass.rfixes[i].fix, pass.rfixes[j].fix))
            => (is_applied(i) /\ ~is_applied(j))

\* Every fix before position i of the walk order was applied and ends at or
\* before the start of the fix at i.
clear_before(i) ==
    \A k \in 1..(i - 1) :
        is_applied(k) /\ pass.rfixes[k].fix.range.end <= pass.rfixes[i].fix.range.start

\* C8 (amended): of two fixes of a pass with overlapping ranges at most one
\* is applied in that pass; and the one that comes first in the walk order
\* is applied, and the other is not, whenever every fix before it in the
\* order was applied and ends at or before its start, as when the two are
\* the only fixes of the pass.
C8_OverlapAtMostOneApplied ==
    (pass # None /\ pc \in {"Scanning", "Aborted"}) =>
        \A i, j \in 1..Len(pass.rfixes) :
            (i < j /\ overlapping(pass.rfixes[i].fix, pass.rfixes[j].fix))
            => /\ ~(is_applied(i) /\ is_applied(j))
               /\ clear_before(i) => (is_applied(i) /\ ~is_applied(j))

\* Three fixes: the first applied, the second, which starts where the first
\* ends, applied too, and the third, which overlaps the second, not applied.
C8_Witness ==
    /\ pass # None
    /\ pc = "Scanning"
    /\ Len(pass.rfixes) = 3
    /\ ~overlapping(pass.rfixes[1].fix, pass.rfixes[2].fix)
    /\ overlapping(pass.rfixes[2].fix, pass.rfixes[3].fix)
    /\ pass.rfixes[1].fix.range.start < pass.rfixes[1].fix.range.end
    /\ pass.applied = <<1, 2>>

\* C9: the fix at which the walk of a pass stops (its start lies before the
\* end of a fix applied in that pass) covers text that is part of the working
\* text of the next pass: none of it was moved to the accumulator.
C9_DiscardedRegionStaysInWorkingText ==
    (pass # None /\ pc \in {"Scanning", "Aborted"}) =>
        \A k \in 1..Len(pass.rfixes) :
            (~is_applied(k) /\ is_applied(k - 1))
            => pass.rfixes[k].fix.range.start >= pass.rfixes[pass.applied[1]].fix.range.end

\* The text with the ranges of the fixes replaced, computed from the right:
\* the fix of greatest start first, so that earlier offsets stay valid.
RECURSIVE replace_all(_, _)
replace_all(t, fixes) ==
    IF fixes = {} THEN t
    ELSE LET f == CHOOSE x \in fixes : \A y \in fixes : y.range.start <= x.range.start
         IN  replace_all(slice(t, 0, f.range.start) \o f.replacement
                            \o slice(t, f.range.end, len(t)),
                         fixes \ {f})

pairwise_disjoint(rfixes) ==
    \A i, j \in 1..Len(rfixes) : i # j => ~overlapping(rfixes[i].fix, rfixes[j].fix)

\* The fixes of the last pass, as a set.
pass_fixes == {pass.rfixes[i].fix : i \in 1..Len(pass.rfixes)}

\* C10 (as stated): when the fixes of the first pass are pairwise
\* non-overlapping, all of them are applied in that pass; and when the input
\* with every flagged range replaced has nothing to fix, the next check finds
\* nothing, so that fix ends Converged after that one pass, and the text it
\* returns is the input with every flagged range replaced.
C10_DisjointFixesConvergeInOnePass ==
    (pass # None /\ pc = "Scanning" /\ iterations = 1 /\ pairwise_disjoint(pass.rfixes)) =>
        /\ \A k \in 1..Len(pass.rfixes) : is_applied(k)
        /\ with_fixes(evaluate(scenario, replace_all(text, pass_fixes), active).diagnostics) = <<>>
               => /\ with_fixes(evaluate(scenario, transformed, active).diagnostics) = <<>>
                  /\ returned(final_transformed, transformed, fixed).text
                         = replace_all(text, pass_fixes)

\* The text the last check was given.
Checked == IF pc = "Linted" THEN text ELSE transformed

\* The 1-based position in the Doc of the token a token-context diagnostic
\* was reported for: the token that starts where the diagnostic starts.
token_of(d) ==
    CHOOSE i \in 1..Len(doc.tokens) : range(doc.tokens[i]).start = d.range.start

\* The rules of a Greek word in the order check_token_with_context tries them.
DispatchOrder ==
    <<"MonosyllableAccented", "MissingAccentCapital", "MultisyllableNotAccented",
      "MissingDoubleAccents", "AddFinalN", "RemoveFinalN", "DuplicatedWord",
      "ForbiddenAccent", "ForbiddenDoubleAccent", "Punctuation">>

dispatch_rank(kind) ==
    IF \E i \in 1..Len(DispatchOrder) : DispatchOrder[i] = kind
    THEN CHOOSE i \in 1..Len(DispatchOrder) : DispatchOrder[i] = kind
    ELSE 0

\* C11: the list check returns holds the diagnostics of the raw-text rules
\* first and then those of the token-context rules; the latter come in
\* ascending order of token index and, for one token, in dispatch order; no
\* token-context diagnostic precedes a raw-text one.
C11_RawThenTokenOrder ==
    (~scenario /\ pc \in {"Linted", "Applying", "Converged"}) =>
        LET d == diagnostics
            n_raw == Len(check_raw(Checked, active))
        IN  /\ n_raw <= Len(d)
            /\ SubSeq(d, 1, n_raw) = check_raw(Checked, active)
            /\ \A i \in 1..Len(d) : requires_tokenizing(d[i].kind) <=> i > n_raw
            /\ \A i, j \in (n_raw + 1)..Len(d) :
                   i < j =>
                       \/ token_of(d[i]) < token_of(d[j])
                       \/ /\ token_of(d[i]) = token_of(d[j])
                          /\ dispatch_rank(d[i].kind) < dispatch_rank(d[j].kind)

\* A check whose list starts with a raw-text diagnostic located after the
\* token-context diagnostics that follow it, two of them on one token.
C11_Witness ==
    /\ pc = "Linted"
    /\ Len(diagnostics) >= 4
    /\ diagnostics[1].kind = "AmbiguousChar"
    /\ diagnostics[2].kind = "DuplicatedWord"
    /\ diagnostics[3].kind = "Punctuation"
    /\ diagnostics[3].range.start = diagnostics[2].range.start
    /\ diagnostics[1].range.start > diagnostics[4].range.start
    /\ diagnostics[4].range.start > diagnostics[3].range.start

\* The token of doc at the 0-based index i.
at(i) == doc.tokens[i + 1]

\* C12 (as stated): is_abbreviation_or_ends_with_dot(token) is true exactly
\* when the token at index token.index + 1 is a Punctuation token that starts
\* with '.', the ellipsis mark or an apostrophe; a Whitespace token in between
\* makes it false.
C12_AbbreviationNeedsAdjacentPunctuation ==
    pc = "Queried" =>
        LET i == result.token.index + 1
        IN  result.is_abbreviation_or_ends_with_dot
            <=> /\ i < Len(doc.tokens)
                /\ at(i).kind = "Punctuation"
                /\ Head(at(i).text) \in {"dot", "ap"}

\* The set of 0-based indices after (before) the queried token whose token
\* is not Whitespace, or is a Greek word.
after_not_whitespace ==
    {i \in (result.token.index + 1)..(Len(doc.tokens) - 1) : at(i).kind # "Whitespace"}

before_not_whitespace ==
    {i \in 0..(result.token.index - 1) : at(i).kind # "Whitespace"}

after_greek_word ==
    {i \in (result.token.index + 1)..(Len(doc.tokens) - 1) : at(i).kind = "GreekWord"}

least(S) == CHOOSE i \in S : \A j \in S : i <= j

greatest(S) == CHOOSE i \in S : \A j \in S : i >= j

\* C13: for every token of a Doc, next_token_not_whitespace is the token of
\* least greater index that is not Whitespace, prev_token_not_whitespace the
\* token of greatest smaller index that is not Whitespace, and
\* next_token_greek_word the token of least greater index that is a
\* GreekWord; each is None exactly when there is no such token.
C13_LookaroundNearest ==
    pc = "Queried" =>
        /\ result.next_not_whitespace =
               IF after_not_whitespace = {} THEN None ELSE at(least(after_not_whitespace))
        /\ result.prev_not_whitespace =
               IF before_not_whitespace = {} THEN None
               ELSE at(greatest(before_not_whitespace))
        /\ result.next_greek_word =
               IF after_greek_word = {} THEN None ELSE at(least(after_greek_word))

\* A query about a word with whitespace on both sides: the three answers are
\* three different tokens, none of them adjacent to the word.
C13_Witness ==
    /\ pc = "Queried"
    /\ result.prev_not_whitespace # None
    /\ result.next_not_whitespace # None
    /\ result.next_greek_word # None
    /\ result.prev_not_whitespace.index < result.token.index - 1
    /\ result.next_not_whitespace.index > result.token.index + 1
    /\ result.next_greek_word.index > result.next_not_whitespace.index

\* C14 (as stated): tokenize returns a Doc for every text, whatever its
\* length in bytes; it never panics.
C14_TokenizeIsTotal ==
    pc # "Panicked" /\ (pc \in {"Tokenized", "Queried"} => doc # Panic)

\* The range of the fix reaches outside the text t.
out_of_bounds(f, t) == f.range.end > len(t)

\* C15 (as stated): TextRange::new panics when end < start, and a pass whose
\* fixes include one whose range reaches outside the working text ends in a
\* panic, never in a returned text, whether the walk would apply that fix or
\* discard it.
C15_MalformedFixPanics ==
    /\ \A a, b \in 0..MaxLen : a > b => TextRange(a, b) = Panic
    /\ (/\ pass # None
        /\ \E k \in 1..Len(pass.rfixes) : out_of_bounds(pass.rfixes[k].fix, pass.transformed))
       => pc = "Panicked"

\* C16: fix calls running in parallel do not interfere: whatever the
\* interleaving, every call returns the text and the counts it returns when
\* it runs alone; the automaton of the outdated-spelling rule, the only state
\* the calls share, is initialised at most once and keeps its value.
C16_ParallelCallsIndependent ==
    /\ ac_inits <= 1
    /\ AC = None <=> ac_inits = 0
    /\ AC # None => AC = AhoCorasick_new
    /\ \A p \in DOMAIN calls :
           calls[p].pc = "Done" => calls[p].result = fix(calls[p].text, calls[p].config)

\* Two calls that both used the automaton and both changed their text have
\* returned; the initialiser ran once.
C16_Witness ==
    /\ DOMAIN calls = Threads
    /\ \A p \in Threads :
           /\ calls[p].pc = "Done"
           /\ "OutdatedSpelling" \in calls[p].active
           /\ calls[p].result.text # calls[p].text
    /\ calls[1].text # calls[2].text
    /\ ac_inits = 1

\* The kinds a diagnostic can have: the rules, and the two doubles.
Kinds == Rule \cup {"ScenarioA", "ScenarioB"}

\* The count of rule r in the counter f: absent means none.
count(f, r) == IF r \in DOMAIN f THEN f[r] ELSE 0

\* The number of fixes of rule r the pass p applied.
applied_of(p, r) ==
    Cardinality({m \in 1..Len(p.applied) : p.rfixes[p.applied[m]].rule = r})

\* C17: the counter starts empty; an apply pass adds to the count of every
\* rule the number of fixes of that rule it applied, and nothing for a fix it
\* did not apply; no other step changes the counter; no entry is zero; and
\* the counts fix returns are the counter.  So the count of a rule is the
\* number of its fixes applied over all passes.
C17_CountsAreAppliedFixes ==
    [][/\ pc = "Applying" =>
           \A r \in Kinds : count(fixed', r) = count(fixed, r) + applied_of(pass', r)
       /\ pc # "Applying" => fixed' = fixed
       /\ pc = "Start" => fixed = EmptyCounter
       /\ DOMAIN fixed' \subseteq Kinds
       /\ \A r \in DOMAIN fixed' : fixed'[r] >= 1
       /\ pc' \in Terminal => result'.fixed = fixed']_vars

\* A run in which a pass left a fix unapplied: the rule of that fix has no
\* count, the rule of the applied fix has one.
C17_Witness ==
    /\ pass # None
    /\ pc = "Scanning"
    /\ pass.applied # <<>>
    /\ \E k \in 1..Len(pass.rfixes) :
           /\ ~is_applied(k)
           /\ pass.rfixes[k].rule \notin DOMAIN fixed
    /\ \E r \in DOMAIN fixed : fixed[r] = applied_of(pass, r)

\* The end of the fix applied last before position k of the walk order, or
\* -1 when none was applied before it: last_pos at the moment k is reached.
last_pos_at(k) ==
    LET before == {j \in 1..(k - 1) : is_applied(j)}
    IN  IF before = {} THEN -1
        ELSE pass.rfixes[greatest(before)].fix.range.end

\* C18 (as stated): a fix that starts below last_pos is discarded on its own
\* and the walk goes on: every fix of the pass whose start is at or after
\* last_pos when the walk comes to it is applied in that pass.
C18_WalkGoesOnAfterDiscard ==
    (pass # None /\ pc \in {"Scanning", "Aborted"}) =>
        \A k \in 1..Len(pass.rfixes) :
            pass.rfixes[k].fix.range.start >= last_pos_at(k) => is_applied(k)

\* C19 (as stated): a pass walks its fixes in a total order: every
\* DuplicatedWord fix before every fix of another kind, and within each of
\* the two groups in ascending order of the start of the range; and cmp_fix
\* is antisymmetric on the fixes of the pass.
C19_WalkOrderIsTotal ==
    pass # None =>
        /\ \A i, j \in 1..Len(pass.rfixes) :
               i < j =>
                   LET a == pass.rfixes[i]
                       b == pass.rfixes[j]
                   IN  /\ b.rule = "DuplicatedWord" => a.rule = "DuplicatedWord"
                       /\ (a.rule = "DuplicatedWord") = (b.rule = "DuplicatedWord")
                              => a.fix.range.start <= b.fix.range.start
        /\ \A i, j \in 1..Len(pass.rfixes) :
               LET a == pass.rfixes[i]
                   b == pass.rfixes[j]
               IN  (i # j /\ cmp_fix(a.rule, b.rule, a.fix, b.fix) = "Less")
                       => cmp_fix(b.rule, a.rule, b.fix, a.fix) = "Greater"

\* C20: in a run of fix the configuration handed to check is the input
\* configuration without the rules that have no fix: every diagnostic of
\* every check is of a rule with a fix, and so is every entry of the counts.
C20_OnlyRulesWithFixesEvaluated ==
    (~scenario /\ pc \in {"Scanning", "Applying", "Converged", "Aborted"}) =>
        /\ active = {r \in config : has_fix(r)}
        /\ \A i \in 1..Len(diagnostics) :
               diagnostics[i].kind \in active /\ has_fix(diagnostics[i].kind)
        /\ \A r \in DOMAIN fixed : r \in active /\ has_fix(r)
        /\ pc \in Terminal => \A r \in DOMAIN result.fixed : has_fix(r)

\* fix has returned for a text and a configuration with DuplicatedWord for
\* which check reports a duplicated word; the check of fix reported nothing.
C20_Witness ==
    /\ ~scenario
    /\ pc = "Converged"
    /\ check_calls = 1
    /\ "DuplicatedWord" \in config
    /\ \E i \in 1..Len(check(text, config).diagnostics) :
           check(text, config).diagnostics[i].kind = "DuplicatedWord"
    /\ diagnostics = <<>>

\* The fixes the last pass applied, as a set.
applied_fixes == {pass.rfixes[pass.applied[m]].fix : m \in 1..Len(pass.applied)}

\* C21 (as stated): the working text of the next iteration is the complete
\* output of the pass, the text of this iteration with the applied fixes
\* replaced; the replacement of every fix applied in the pass, the first one
\* included, lies in the text that the next check examines.
C21_NextTextIsWholeBuffer ==
    (pass # None /\ pc = "Scanning") =>
        /\ transformed = replace_all(pass.transformed, applied_fixes)
        /\ \A m \in 1..Len(pass.applied) : pass.placed[m] >= len(final_transformed)

\* The first pass of a run over the text t with the rules a.
first_pass(sc, t, a) ==
    apply_pass(t, <<>>, EmptyCounter, rfixes_of(evaluate(sc, t, a).diagnostics))

\* The text that precedes the first fix applied in the run: the text from
\* byte 0 up to the start of the fix the first pass applied first.
settled_of(t, rfixes, p) == slice(t, 0, rfixes[p.applied[1]].fix.range.start)

settled ==
    settled_of(text, rfixes_of(evaluate(scenario, text, active).diagnostics),
               first_pass(scenario, text, active))

\* s is a prefix of t.
is_prefix(s, t) == Len(s) <= Len(t) /\ SubSeq(t, 1, Len(s)) = s

\* C22: once the first fix of a run has been applied, the text that preceded
\* it is in the accumulator, at its start; the accumulator only grows at its
\* end, so that text is in no later working text; and it starts the text fix
\* returns, unchanged.  (The input and the rule set of a run do not change
\* after its first step, so `settled` has one value over the run.)
C22_PrefixSettled ==
    [][/\ is_prefix(final_transformed, final_transformed')
       /\ pc = "Start" => final_transformed' = <<>>
       /\ (pc \in {"Scanning", "Applying"} /\ iterations' >= 1) =>
              /\ is_prefix(settled, final_transformed')
              /\ len(Output') - len(transformed') >= len(settled)
              /\ pc' \in Terminal => is_prefix(settled, result'.text)]_vars

\* A run of three passes whose first fix came after two characters of text,
\* which start the returned text.
C22_Witness ==
    /\ pc = "Converged"
    /\ iterations >= 2
    /\ Len(settled) >= 2
    /\ is_prefix(settled, result.text)
    /\ final_transformed # settled

\* C23 (as stated): the fix loop starts in Scanning and takes only the
\* transitions Scanning to Applying, Applying to Scanning, Scanning to
\* Converged and Scanning to Aborted; Converged and Aborted are terminal and
\* return a result; every apply pass is followed by a scan before fix
\* returns.
C23_FixLoopTransitions ==
    [][/\ pc = "Start" => pc' \in {"Scanning", "Linted"}
       /\ pc = "Scanning" => pc' \in {"Applying", "Converged", "Aborted"}
       /\ pc = "Applying" => pc' = "Scanning"
       /\ pc \notin Terminal
       /\ pc' \in Terminal => result' # None]_vars

\* C24: each pass conserves the text outside the applied fixes: after the
\* pass the accumulator followed by the new working text is the previous
\* accumulator followed by the old working text with exactly the ranges of
\* the applied fixes replaced; the accumulator keeps what it held; and the
\* text fix returns is the last such concatenation.
C24_PassConservesText ==
    [][/\ pc = "Applying" =>
           /\ pass'.final = final_transformed
           /\ pass'.transformed = transformed
           /\ Output' = final_transformed
                           \o replace_all(transformed,
                                  {pass'.rfixes[pass'.applied[m]].fix :
                                       m \in 1..Len(pass'.applied)})
       /\ pc # "Applying" => (pc = "Start" /\ Output = <<>>) \/ Output' = Output
       /\ pc' \in Terminal => result'.text = Output']_vars

\* A pass that applied three fixes of two rules, with text between them that
\* no fix covers.
C24_Witness ==
    /\ pass # None
    /\ pc = "Scanning"
    /\ Len(pass.applied) = 3
    /\ pass.rfixes[pass.applied[1]].fix.range.end
           < pass.rfixes[pass.applied[2]].fix.range.start
    /\ pass.rfixes[pass.applied[2]].fix.range.end
           < pass.rfixes[pass.applied[3]].fix.range.start
    /\ pass.rfixes[pass.applied[1]].rule # pass.rfixes[pass.applied[3]].rule
    /\ Output # pass.final \o pass.transformed

\* The kinds of the diagnostics that the rules of Greek words report.
GreekWordRules == {DispatchOrder[i] : i \in 1..Len(DispatchOrder)}

\* The positions in the Doc of the tokens that start where d starts.
tokens_at(d) == {i \in 1..Len(doc.tokens) : range(doc.tokens[i]).start = d.range.start}

\* The positions in the list of the diagnostics of kind k that start where
\* the token starts.
reports_of(k, token) ==
    {i \in 1..Len(diagnostics) :
        diagnostics[i].kind = k /\ diagnostics[i].range.start = range(token).start}

\* C25: in check no rule is evaluated on a Whitespace or Punctuation token;
\* the rules of Greek words are evaluated on GreekWord tokens only, and
\* there every enabled one is; on a Word token only MixedScripts is, when it
\* is enabled; every token is visited once, in index order.  In terms of the
\* list check returns: a token-context diagnostic sits on one token, of the
\* kind its rule is for; a rule reports at most once per token; a token that
\* a rule flags has its report when the rule is enabled; and the reports come
\* in ascending order of their tokens.
C25_RulesByTokenKind ==
    (~scenario /\ doc # None /\ pc \in {"Linted", "Applying", "Converged"}) =>
        /\ \A i \in 1..Len(diagnostics) :
               LET d == diagnostics[i]
               IN  requires_tokenizing(d.kind) =>
                       /\ d.kind \in active
                       /\ Cardinality(tokens_at(d)) = 1
                       /\ d.kind \in GreekWordRules
                              => doc.tokens[token_of(d)].kind = "GreekWord"
                       /\ d.kind \notin GreekWordRules
                              => d.kind = "MixedScripts"
                                 /\ doc.tokens[token_of(d)].kind = "Word"
        /\ \A k \in 1..Len(doc.tokens) :
               LET token == doc.tokens[k]
               IN  /\ \A r \in Rule : Cardinality(reports_of(r, token)) <= 1
                   /\ token.kind \in {"Whitespace", "Punctuation"} =>
                          \A r \in Rule : requires_tokenizing(r) => reports_of(r, token) = {}
                   /\ (token.kind = "Word" /\ "MixedScripts" \in active
                           /\ mixed_scripts_opt(token))
                          => reports_of("MixedScripts", token) # {}
                   /\ (token.kind = "GreekWord" /\ "Punctuation" \in active
                           /\ punctuation_opt(token) # None)
                          => reports_of("Punctuation", token) # {}
                   /\ (token.kind = "GreekWord" /\ "DuplicatedWord" \in active
                           /\ duplicated_word_opt(token, doc) # None)
                          => reports_of("DuplicatedWord", token) # {}
                   /\ (token.kind = "GreekWord" /\ "ForbiddenDoubleAccent" \in active
                           /\ forbidden_double_accent_opt(token, doc))
                          => reports_of("ForbiddenDoubleAccent", token) # {}
                   /\ (token.kind = "GreekWord" /\ "ForbiddenAccent" \in active
                           /\ forbidden_accent_opt(token, doc) # None)
                          => reports_of("ForbiddenAccent", token) # {}
                   /\ (token.kind = "GreekWord" /\ "MonosyllableAccented" \in active
                           /\ monosyllable_accented_opt(token, doc))
                          => reports_of("MonosyllableAccented", token) # {}
                   /\ (token.kind = "GreekWord" /\ "MultisyllableNotAccented" \in active
                           /\ multisyllable_not_accented_opt(token, doc))
                          => reports_of("MultisyllableNotAccented", token) # {}
        /\ \A i, j \in 1..Len(diagnostics) :
               (i < j /\ requires_tokenizing(diagnostics[i].kind)
                      /\ requires_tokenizing(diagnostics[j].kind))
                   => diagnostics[i].range.start <= diagnostics[j].range.start

\* A check with Punctuation enabled of a text whose only word has an
\* apostrophe after a starting string and is not Greek: the rule was not
\* evaluated on it and nothing is reported.
C25_Witness ==
    /\ ~scenario
    /\ doc # None
    /\ pc = "Linted"
    /\ "Punctuation" \in active
    /\ \E k \in 1..Len(doc.tokens) :
           /\ doc.tokens[k].kind = "Word"
           /\ punctuation_opt(doc.tokens[k]) # None
    /\ diagnostics = <<>>

\* The Doc that tokenize returned in this state.
has_doc == pc \in {"Tokenized", "Queried"} /\ doc # Panic

\* The positions of the text at which a maximal run of whitespace starts.
whitespace_runs(t) ==
    {i \in 1..Len(t) : is_whitespace(t[i]) /\ (i = 1 \/ ~is_whitespace(t[i - 1]))}

\* C26: every maximal run of whitespace of the input is one Whitespace token:
\* a Whitespace token holds whitespace characters only, no token of another
\* kind holds a whitespace character, no two consecutive tokens are both
\* Whitespace, and there are as many Whitespace tokens as runs.
C26_WhitespaceRunsAreTokens ==
    has_doc =>
        /\ \A k \in 1..Len(doc.tokens) :
               \A i \in 1..Len(doc.tokens[k].text) :
                   is_whitespace(doc.tokens[k].text[i]) <=> doc.tokens[k].kind = "Whitespace"
        /\ \A k \in 1..(Len(doc.tokens) - 1) :
               ~(doc.tokens[k].kind = "Whitespace" /\ doc.tokens[k + 1].kind = "Whitespace")
        /\ Cardinality({k \in 1..Len(doc.tokens) : doc.tokens[k].kind = "Whitespace"})
               = Cardinality(whitespace_runs(doc.src))

\* A Doc with a Whitespace token made of a space and a line feed, between
\* two other tokens.
C26_Witness ==
    /\ has_doc
    /\ \E k \in 2..(Len(doc.tokens) - 1) :
           /\ doc.tokens[k].kind = "Whitespace"
           /\ \E i, j \in 1..Len(doc.tokens[k].text) :
                  doc.tokens[k].text[i] = "sp" /\ doc.tokens[k].text[j] = "nl"

\* The maximal runs of characters that are not whitespace, as pairs of the
\* first and the last character position.
word_runs(t) ==
    {<<a, b>> \in (1..Len(t)) \X (1..Len(t)) :
        /\ a <= b
        /\ \A i \in a..b : ~is_whitespace(t[i])
        /\ a = 1 \/ is_whitespace(t[a - 1])
        /\ b = Len(t) \/ is_whitespace(t[b + 1])}

\* The byte offset of the character at position i of t.
offset_of(t, i) == len(SubSeq(t, 1, i - 1))

\* The tokens of the Doc that start inside the run, in order, as positions.
tokens_in(run) ==
    {k \in 1..Len(doc.tokens) :
        /\ doc.tokens[k].offset >= offset_of(doc.src, run[1])
        /\ doc.tokens[k].offset < offset_of(doc.src, run[2] + 1)}

\* The alphabetic positions of the run.
alphabetic_in(t, run) == {i \in run[1]..run[2] : is_alphabetic(t[i])}

\* The texts and kinds the claim gives the run: the punctuation before the
\* first alphabetic character, the word from the first to the last
\* alphabetic character, the punctuation after it; the whole run as one
\* Punctuation token when it has no alphabetic character.
tokens_stated(t, run) ==
    LET alpha == alphabetic_in(t, run)
    IN  IF alpha = {} THEN <<[text |-> SubSeq(t, run[1], run[2]), word |-> FALSE]>>
        ELSE (IF least(alpha) > run[1]
              THEN <<[text |-> SubSeq(t, run[1], least(alpha) - 1), word |-> FALSE]>>
              ELSE <<>>)
             \o <<[text |-> SubSeq(t, least(alpha), greatest(alpha)), word |-> TRUE]>>
             \o (IF greatest(alpha) < run[2]
                 THEN <<[text |-> SubSeq(t, greatest(alpha) + 1, run[2]), word |-> FALSE]>>
                 ELSE <<>>)

\* C27: every maximal non-whitespace run yields one to three tokens, in the
\* order optional Punctuation, optional Word or GreekWord, optional
\* Punctuation; the word token spans from the first to the last alphabetic
\* character of the run, with any punctuation between them inside it; a
\* digit is not alphabetic; a run with no alphabetic character is one
\* Punctuation token.
C27_RunYieldsPunctWordPunct ==
    has_doc =>
        \A run \in word_runs(doc.src) :
            LET ks == tokens_in(run)
                st == tokens_stated(doc.src, run)
            IN  /\ Cardinality(ks) \in 1..3
                /\ Cardinality(ks) = Len(st)
                /\ \A m \in 1..Len(st) :
                       LET token == doc.tokens[least(ks) + m - 1]
                       IN  /\ least(ks) + m - 1 \in ks
                           /\ token.text = st[m].text
                           /\ st[m].word <=> token.kind \in {"Word", "GreekWord"}
                           /\ ~st[m].word <=> token.kind = "Punctuation"
                           /\ st[m].word =>
                                  /\ is_alphabetic(Head(token.text))
                                  /\ is_alphabetic(token.text[Len(token.text)])

\* A run made of a digit, a word with an apostrophe inside it, and a full
\* stop: three tokens, the digit as Punctuation.
C27_Witness ==
    /\ has_doc
    /\ Len(doc.tokens) = 3
    /\ doc.tokens[1].kind = "Punctuation" /\ doc.tokens[1].text = <<"d1">>
    /\ doc.tokens[2].kind = "GreekWord" /\ doc.tokens[2].text = <<"al", "ap", "al">>
    /\ doc.tokens[3].kind = "Punctuation" /\ doc.tokens[3].text = <<"dot">>

\* C28: in every Doc that tokenize returns the index of a token is its
\* position in the sequence, counted from 0; so the token a query is asked
\* about is the token of the Doc at its index, and the answers of the
\* queries lie on the side of it they are asked for.
C28_IndexIsPosition ==
    has_doc =>
        /\ \A k \in 1..Len(doc.tokens) : doc.tokens[k].index = k - 1
        /\ pc = "Queried" =>
               /\ get(doc, result.token.index) = result.token
               /\ result.next_not_whitespace # None
                      => result.next_not_whitespace.index > result.token.index
               /\ result.prev_not_whitespace # None
                      => result.prev_not_whitespace.index < result.token.index
               /\ result.next_greek_word # None
                      => result.next_greek_word.index > result.token.index

\* A query about the fourth token of a Doc whose first chunk gave two
\* tokens; the query found a token before it.
C28_Witness ==
    /\ has_doc
    /\ pc = "Queried"
    /\ result.token.index = 3
    /\ result.prev_not_whitespace # None
    /\ doc.tokens[1].kind = "Punctuation"
    /\ doc.tokens[2].kind \in {"Word", "GreekWord"}
    /\ doc.tokens[3].kind = "Whitespace"

\* C29 (as stated): has_fix agrees with the evaluators: a diagnostic carries
\* a fix only if its rule has has_fix, so a diagnostic of a rule without
\* has_fix carries none; and a run of fix with a rule that reports a fix for
\* the text keeps the rule and applies a fix.
C29_HasFixAgreesWithEvaluators ==
    ~scenario =>
        /\ \A i \in 1..Len(diagnostics) :
               diagnostics[i].fix # None => has_fix(diagnostics[i].kind)
        /\ pc \in Terminal =>
               /\ \A r \in config :
                      (\E i \in 1..Len(check(text, {r}).diagnostics) :
                           check(text, {r}).diagnostics[i].fix # None)
                      => r \in active
               /\ with_fixes(check(text, config).diagnostics) # <<>>
                      => result.fixed # EmptyCounter

\* C30: after the 100th apply pass fix returns through the cap branch with
\* the warning and without a check of the text that pass produced: a run that
\* ends at the cap has made 100 passes and 100 checks; a run that converges
\* has made fewer than 100 passes, one check more than passes, and has not
\* warned; so no run converges after exactly 100 passes, whatever its text.
C30_CapSkipsLastCheck ==
    /\ pc = "Aborted" =>
           /\ iterations = MAX_ITERATIONS
           /\ check_calls = iterations
           /\ warned
    /\ pc = "Converged" =>
           /\ iterations < MAX_ITERATIONS
           /\ check_calls = iterations + 1
           /\ ~warned
    /\ warned => pc = "Aborted"

\* A run that needed exactly 100 passes: it ended at the cap with the
\* warning, and the text it returns has nothing left to fix.
C30_Witness ==
    /\ pc = "Aborted"
    /\ warned
    /\ iterations = MAX_ITERATIONS
    /\ Len(text) = MAX_ITERATIONS
    /\ with_fixes(evaluate(scenario, result.text, active).diagnostics) = <<>>

====
